---- MODULE Spec2Model ----
(***************************************************************************)
(* Model of the VPU custom-layer kernel descriptor loader                  *)
(* (vpu::CustomKernel and its helpers, custom_kernel.cpp).                 *)
(*                                                                         *)
(* A std::string is a sequence of one-character strings, so that           *)
(* splitting, case folding and number parsing are computed character by    *)
(* character as the code does.  A C++ exception is a result record whose   *)
(* status is not "Ok".                                                     *)
(***************************************************************************)
EXTENDS Integers, Sequences, FiniteSets, TLC

VARIABLES
    dims,            \* argument of parseDimSource
    dimSourceResult, \* its outcome, or NotCalled
    str,             \* argument of formatFromString
    formatResult,    \* its outcome, or NotCalled
    size,            \* argument of parseSizeRule
    sizeRuleResult,  \* its outcome, or NotCalled
    parameters,      \* children of the <Parameters> element, in document order
    paramsResult,    \* outcome of processParametersNode, or NotCalled
    kernelNode,            \* per kernel: the XML kernelNode its constructor is given
    files,      \* the files that can be opened, with their contents
    pc,              \* per kernel: the statement its constructor is at
    ctor,           \* per kernel: the object under construction and the locals
    result,          \* per kernel: what the caller of the constructor got
    visits,          \* the calls the visitor has received, in order
    accepted,        \* per kernel: the number of accept calls made on it
    lane,            \* the call of ShuffleChannel on one shave: arguments and locals
    g_IsInitialized,      \* XLinkDevice.c: int g_IsInitialized
    availableConnections, \* XLinkDevice.c: Connection availableConnections[MAX_LINKS]
    freeConnectionsIds,   \* XLinkDevice.c: int freeConnectionsIds[MAX_PACKET_PER_STREAM]
    nextUniqueLinkId,     \* XLinkDevice.c: linkId_t nextUniqueLinkId
    xlinkReturn           \* what the last XLink call returned, or NotCalled

vars == <<dims, dimSourceResult, str, formatResult, size, sizeRuleResult,
          parameters, paramsResult, kernelNode, files, pc, ctor, result, visits,
          accepted, lane, g_IsInitialized, availableConnections,
          freeConnectionsIds, nextUniqueLinkId, xlinkReturn>>

\* The globals of XLinkDevice.c.
xlinkVars == <<g_IsInitialized, availableConnections, freeConnectionsIds,
               nextUniqueLinkId, xlinkReturn>>

----------------------------------------------------------------------------
(* Bounds of the explored inputs.                                          *)

MaxIdxLen == 2
MaxFormatLen == 4
MaxSizeLen == 5
MaxChildren == 3

----------------------------------------------------------------------------
(* Results and exceptions.                                                 *)

NotCalled == [status |-> "NotCalled", msg |-> "", value |-> <<>>]

Return(v) == [status |-> "Ok", msg |-> "", value |-> v]

\* THROW_IE_EXCEPTION << msg, classified by the error kind of the throw site.
Throw(kind, msg) == [status |-> kind, msg |-> msg, value |-> <<>>]

----------------------------------------------------------------------------
(* Kernels and their constructors at rest.                                 *)

\* The kernels that are constructed.
Kernels == {1, 2}

\* No node is given to a constructor that does not run.
NoNode == [variant |-> "None"]

\* What is left of the object once the constructor has thrown.
NoObject == [destroyed |-> TRUE]

\* The frame of a constructor that does not run.
NoFrame == [this |-> NoObject]

\* No constructor runs: the state of the specifications of the text
\* functions.
NoConstruction ==
    /\ kernelNode = [k \in Kernels |-> NoNode]
    /\ files = {}
    /\ pc = [k \in Kernels |-> "unused"]
    /\ ctor = [k \in Kernels |-> NoFrame]
    /\ result = [k \in Kernels |-> NotCalled]
    /\ visits = <<>>
    /\ accepted = [k \in Kernels |-> 0]

\* const int NUM_SHAVES = 16
NUM_SHAVES == 16

\* ShuffleChannel has not been called.
NoShave == [pc |-> "idle"]

\* #define FREE_CONNECTION_FLAG 0
FREE_CONNECTION_FLAG == 0

\* #define BUSY_CONNECTION_FLAG 1
BUSY_CONNECTION_FLAG == 1

\* The size of availableConnections.  XLink defines it as 32; the model
\* keeps the order MAX_LINKS < MAX_PACKET_PER_STREAM < INVALID_LINK_ID on a
\* smaller scale.
MAX_LINKS == 2

\* The size of freeConnectionsIds (64 in XLink).
MAX_PACKET_PER_STREAM == 4

\* The linkId_t that is no link: the largest value of the type (0xFF in
\* XLink).
INVALID_LINK_ID == 7

\* A Connection of zero bytes, as static storage and memset leave it.
ZeroConnection == [id |-> 0, status |-> "CONNECTION_DOWN"]

\* The globals of XLinkDevice.c as the program starts: static storage is
\* zero-initialised.
StaticStorage ==
    /\ g_IsInitialized = 0
    /\ availableConnections = [i \in 0..(MAX_LINKS - 1) |-> ZeroConnection]
    /\ freeConnectionsIds = [i \in 0..(MAX_PACKET_PER_STREAM - 1) |-> 0]
    /\ nextUniqueLinkId = 0
    /\ xlinkReturn = NotCalled

\* No kernel runs on a shave and XLink has not been used.
NoDevice ==
    /\ lane = NoShave
    /\ StaticStorage

----------------------------------------------------------------------------
(* Characters and standard-library text functions.                         *)

UpperChars == <<"A","B","C","D","E","F","G","H","I","J","K","L","M",
                "N","O","P","Q","R","S","T","U","V","W","X","Y","Z">>
LowerChars == <<"a","b","c","d","e","f","g","h","i","j","k","l","m",
                "n","o","p","q","r","s","t","u","v","w","x","y","z">>
DigitChars == <<"0","1","2","3","4","5","6","7","8","9">>

\* The characters std::isspace holds for in the "C" locale; "\\v" stands for
\* the vertical tab (0x0B), for which the language has no escape.
SpaceChars == {" ", "\t", "\n", "\\v", "\f", "\r"}

\* std::tolower in the "C" locale
tolower(c) ==
    IF \E i \in 1..Len(UpperChars) : UpperChars[i] = c
    THEN LowerChars[CHOOSE i \in 1..Len(UpperChars) : UpperChars[i] = c]
    ELSE c

DigitValue(c) == (CHOOSE i \in 1..Len(DigitChars) : DigitChars[i] = c) - 1

\* ie::details::CaselessEq<std::string>: equal sizes and equal characters
\* after std::tolower.
CaselessEq(a, b) ==
    /\ Len(a) = Len(b)
    /\ \A i \in 1..Len(a) : tolower(a[i]) = tolower(b[i])

\* std::string::find_first_of(ch): 1-based position of the first ch, or 0
\* for npos.
find_first_of(s, ch) ==
    IF \E i \in 1..Len(s) : s[i] = ch
    THEN CHOOSE i \in 1..Len(s) : s[i] = ch /\ \A j \in 1..(i - 1) : s[j] # ch
    ELSE 0

\* Number of occurrences of ch in s (std::count).
count(s, ch) == Cardinality({i \in 1..Len(s) : s[i] = ch})

\* INT_MAX and INT_MIN of a 32-bit int.
IntMax == 2^30 + (2^30 - 1)
IntMin == -IntMax - 1

\* A result of NegativeValue that is no negated value.
Overflow == IntMax

RECURSIVE NegativeValue(_, _, _)
\* Minus the value of the digits s[from..to], most significant first, or
\* Overflow when it lies below IntMin.
NegativeValue(s, from, to) ==
    IF to < from THEN 0
    ELSE LET hi == NegativeValue(s, from, to - 1)
             d == DigitValue(s[to])
         IN  IF hi = Overflow THEN Overflow
             ELSE IF hi < -(IntMax \div 10)
                     \/ (hi = -(IntMax \div 10) /\ d > (IntMax % 10) + 1)
                  THEN Overflow
                  ELSE 10 * hi - d

\* Index of the first character of s at or after from that is not in chars;
\* Len(s) + 1 when there is none.
SkipChars(s, from, chars) ==
    CHOOSE i \in from..(Len(s) + 1) :
        /\ \A j \in from..(i - 1) : s[j] \in chars
        /\ (i = Len(s) + 1 \/ s[i] \notin chars)

\* The int for the negated magnitude neg, or std::out_of_range.
StoiValue(negative, neg) ==
    IF neg = Overflow \/ (~negative /\ neg = IntMin)
    THEN Throw("std::out_of_range", "stoi")
    ELSE Return(IF negative THEN neg ELSE -neg)

\* The digits s[from..to-1] as an int; std::invalid_argument when there is
\* no digit.
StoiDigits(s, negative, from, to) ==
    IF to = from THEN Throw("std::invalid_argument", "stoi")
    ELSE StoiValue(negative, NegativeValue(s, from, to - 1))

\* The optional sign at s[i0] and the longest run of digits after it.
StoiSigned(s, i0) ==
    IF i0 <= Len(s) /\ s[i0] \in {"+", "-"}
    THEN StoiDigits(s, s[i0] = "-", i0 + 1,
                    SkipChars(s, i0 + 1, {DigitChars[k] : k \in 1..Len(DigitChars)}))
    ELSE StoiDigits(s, FALSE, i0,
                    SkipChars(s, i0, {DigitChars[k] : k \in 1..Len(DigitChars)}))

\* std::stoi(s), base 10: skips leading white space, takes an optional sign
\* and the longest run of digits, ignores what follows; std::invalid_argument
\* when there is no digit, std::out_of_range when the value does not fit int.
stoi(s) == StoiSigned(s, SkipChars(s, 1, SpaceChars))

\* All sequences over alphabet of length at most n.
RECURSIVE SeqsUpTo(_, _)
SeqsUpTo(alphabet, n) ==
    IF n = 0 THEN {<<>>}
    ELSE LET shorter == SeqsUpTo(alphabet, n - 1)
         IN  shorter \cup {Append(s, c) : s \in shorter, c \in alphabet}

----------------------------------------------------------------------------
(* XML attributes (XMLParseUtils).  An attribute is absent or carries a    *)
(* text, which may be empty.                                               *)

NoAttr == [present |-> FALSE, value |-> <<>>]

Attr(text) == [present |-> TRUE, value |-> text]

\* XMLParseUtils::GetStrAttr(node, name): a mandatory attribute.
GetStrAttr(attr) ==
    IF attr.present THEN Return(attr.value)
    ELSE Throw("InvalidDescriptor", "missing mandatory attribute")

\* XMLParseUtils::GetStrAttr(node, name, def): an optional attribute.
GetStrAttrDef(attr, def) == IF attr.present THEN attr.value ELSE def

\* An integer attribute is absent or carries its integer value.
NoIntAttr == [present |-> FALSE, value |-> 0]

IntAttr(n) == [present |-> TRUE, value |-> n]

\* XMLParseUtils::GetIntAttr(node, name): a mandatory integer attribute.
GetIntAttr(attr) ==
    IF attr.present THEN Return(attr.value)
    ELSE Throw("InvalidDescriptor", "missing mandatory attribute")

\* XMLParseUtils::GetIntAttr(node, name, def): an optional integer attribute.
GetIntAttrDef(attr, def) == IF attr.present THEN attr.value ELSE def

----------------------------------------------------------------------------
(* CustomKernel::parseDimSource                                            *)

\* The dimSource lambda: the dimension source named by the text before the
\* first comma.
DimSourceOf(source) ==
    IF CaselessEq(source, <<"i","n","p","u","t">>) THEN Return("Input")
    ELSE IF CaselessEq(source, <<"o","u","t","p","u","t">>) THEN Return("Output")
    ELSE Throw("InvalidDescriptor", "Invalid dim source argument")

\* Mutant: the source token is compared case-sensitively.
DimSourceOf_CaseSensitive(source) ==
    IF source = <<"i","n","p","u","t">> THEN Return("Input")
    ELSE IF source = <<"o","u","t","p","u","t">> THEN Return("Output")
    ELSE Throw("InvalidDescriptor", "Invalid dim source argument")

\* The idx lambda: -1 without a comma (pos = 0), else std::stoi of the text
\* after the comma at pos.
DimIdxOf(text, pos) ==
    IF pos = 0 THEN Return(-1)
    ELSE stoi(SubSeq(text, pos + 1, Len(text)))

\* std::make_pair(dimSource, idx), unless one of the two lambdas threw; the
\* dimSource lambda runs first.
DimSourcePair(dimSource, idx) ==
    IF dimSource.status # "Ok" THEN dimSource
    ELSE IF idx.status # "Ok" THEN idx
    ELSE Return(<<dimSource.value, idx.value>>)

\* dims.substr(0, pos), pos = 0 standing for npos.
DimSourceText(text, pos) == IF pos = 0 THEN text ELSE SubSeq(text, 1, pos - 1)

\* Mutant of parseDimSource: the source token is compared case-sensitively.
parseDimSource_CaseSensitive(text) ==
    DimSourcePair(DimSourceOf_CaseSensitive(DimSourceText(text, find_first_of(text, ","))),
                  DimIdxOf(text, find_first_of(text, ",")))

\* std::pair<CustomDimSource, int> CustomKernel::parseDimSource(dims)
parseDimSource(text) ==
    DimSourcePair(DimSourceOf(DimSourceText(text, find_first_of(text, ","))),
                  DimIdxOf(text, find_first_of(text, ",")))

----------------------------------------------------------------------------
(* CustomKernel::formatFromString                                          *)

\* static const caseless_map<std::string, CustomDataFormat> FormatNameToType
FormatNameToType ==
    << <<<<"B","F","Y","X">>, "BFYX">>,
       <<<<"B","Y","X","F">>, "BYXF">>,
       <<<<"F","Y","X">>,     "FYX">>,
       <<<<"Y","X","F">>,     "YXF">>,
       <<<<"B","F">>,         "BF">>,
       <<<<"A","N","Y">>,     "Any">> >>

\* Mutant: the table is searched with exact (case-sensitive) keys.
formatFromString_ExactKey(text) ==
    IF \E i \in 1..Len(FormatNameToType) : FormatNameToType[i][1] = text
    THEN Return(FormatNameToType[
             CHOOSE i \in 1..Len(FormatNameToType) : FormatNameToType[i][1] = text][2])
    ELSE Throw("InvalidDescriptor", "Tensor node has an invalid format")

\* CustomDataFormat CustomKernel::formatFromString(str): caseless_map::find,
\* whose key equivalence is equality after std::tolower.
formatFromString(text) ==
    IF \E i \in 1..Len(FormatNameToType) : CaselessEq(FormatNameToType[i][1], text)
    THEN Return(FormatNameToType[
             CHOOSE i \in 1..Len(FormatNameToType) :
                 CaselessEq(FormatNameToType[i][1], text)][2])
    ELSE Throw("InvalidDescriptor", "Tensor node has an invalid format")

----------------------------------------------------------------------------
(* CustomKernel::parseSizeRule                                             *)

\* std::getline(stream, line, ','): fails, extracting nothing, when no
\* character is left; otherwise extracts up to and excluding the next comma
\* (which it consumes) or up to the end of the stream.
getline(stream) ==
    IF stream = <<>> THEN [ok |-> FALSE, line |-> <<>>, rest |-> <<>>]
    ELSE LET pos == find_first_of(stream, ",")
         IN  IF pos = 0 THEN [ok |-> TRUE, line |-> stream, rest |-> <<>>]
             ELSE [ok |-> TRUE, line |-> SubSeq(stream, 1, pos - 1),
                   rest |-> SubSeq(stream, pos + 1, Len(stream))]

RECURSIVE parseSizeRule_Reversed(_)
\* Mutant: each extracted rule is inserted in front of the result.
parseSizeRule_Reversed(text) ==
    LET got == getline(text)
    IN  IF ~got.ok THEN <<>>
        ELSE Append(parseSizeRule_Reversed(got.rest), got.line)

RECURSIVE parseSizeRule(_)
\* SmallVector<std::string> CustomKernel::parseSizeRule(size):
\* while (std::getline(sizeRules, bufferSize, ',')) result.push_back(bufferSize)
parseSizeRule(text) ==
    LET got == getline(text)
    IN  IF ~got.ok THEN <<>>
        ELSE <<got.line>> \o parseSizeRule(got.rest)

\* formatFromString(XMLParseUtils::GetStrAttr(tensor, "format", "BFYX"))
TensorFormat(formatAttr) ==
    formatFromString(GetStrAttrDef(formatAttr, <<"B","F","Y","X">>))

----------------------------------------------------------------------------
(* CustomKernel::processParametersNode                                     *)

\* Tokens of the type attribute.
TypeInput        == <<"i","n","p","u","t">>
TypeOutput       == <<"o","u","t","p","u","t">>
TypeInputBuffer  == <<"i","n","p","u","t","_","b","u","f","f","e","r">>
TypeOutputBuffer == <<"o","u","t","p","u","t","_","b","u","f","f","e","r">>
TypeData         == <<"d","a","t","a">>
TypeLocalData    == <<"l","o","c","a","l","_","d","a","t","a">>
TypeInt          == <<"i","n","t">>
TypeFloat        == <<"f","l","o","a","t">>

\* struct KernelParam with its default member initializers; dimSource has
\* none: until parseDimSource assigns it, it holds the indeterminate value
\* of the storage the object was created in.
KernelParam(indeterminate) ==
    [type |-> "Input", format |-> "Any", argName |-> <<>>, portIndex |-> -1,
     irSource |-> <<>>, bufferSizeRule |-> <<>>,
     dimSource |-> indeterminate, dimIdx |-> -1]

\* What parseSizeRule(sizeRule)[0] does on the empty vector that
\* parseSizeRule("") returns: the read of storage that holds no string ends
\* the process, makes the copy throw (std::bad_alloc, std::length_error), or
\* yields whatever text the storage holds.
EmptyVectorOutcomes ==
    { Throw("Crash", "parseSizeRule(sizeRule)[0] on an empty vector"),
      Throw("std::bad_alloc", "std::bad_alloc"),
      Throw("std::length_error", "basic_string::_M_create"),
      Return(<<>>),
      Return(<<"?">>) }

\* What the undefined reads of one iteration of a loop of
\* processParametersNode can do: rule is the outcome of indexing an empty
\* vector, dimSource the value kp.dimSource has before anything is assigned
\* to it: one of the enumerators, or a value that is neither
\* ("Indeterminate"), whatever the other iterations had.
ElementUndefs ==
    [rule : EmptyVectorOutcomes, dimSource : {"Input", "Output", "Indeterminate"}]

RECURSIVE StreamText(_)

\* message << text: the characters of the text as they are written into the
\* message of an exception.
StreamText(text) ==
    IF text = <<>> THEN "" ELSE Head(text) \o StreamText(Tail(text))

\* Mutant: the Tensor loop also takes the Data-only token local_data.
TensorType_AcceptsLocalData(typeStr) ==
    IF CaselessEq(typeStr, TypeInput) THEN Return("Input")
    ELSE IF CaselessEq(typeStr, TypeOutput) THEN Return("Output")
    ELSE IF CaselessEq(typeStr, TypeInputBuffer) THEN Return("InputBuffer")
    ELSE IF CaselessEq(typeStr, TypeOutputBuffer) THEN Return("OutputBuffer")
    ELSE IF CaselessEq(typeStr, TypeData) THEN Return("Data")
    ELSE IF CaselessEq(typeStr, TypeLocalData) THEN Return("LocalData")
    ELSE Throw("InvalidDescriptor",
               "Tensor node has an invalid type '" \o StreamText(typeStr) \o "'")

\* The type of a Tensor node from its type attribute text.
TensorType(typeStr) ==
    IF CaselessEq(typeStr, TypeInput) THEN Return("Input")
    ELSE IF CaselessEq(typeStr, TypeOutput) THEN Return("Output")
    ELSE IF CaselessEq(typeStr, TypeInputBuffer) THEN Return("InputBuffer")
    ELSE IF CaselessEq(typeStr, TypeOutputBuffer) THEN Return("OutputBuffer")
    ELSE IF CaselessEq(typeStr, TypeData) THEN Return("Data")
    ELSE Throw("InvalidDescriptor",
               "Tensor node has an invalid type '" \o StreamText(typeStr) \o "'")

\* std::tie(kp.dimSource, kp.dimIdx) = parseDimSource(dimString)
TieDimSource(kp, dim) ==
    IF dim.status # "Ok" THEN dim
    ELSE Return([kp EXCEPT !.dimSource = dim.value[1], !.dimIdx = dim.value[2]])

\* kp.bufferSizeRule = parseSizeRule(sizeRule)[0], then the dim attribute.
TensorBufferRule(kp, rules, dimString, undef) ==
    IF rules = <<>> /\ undef.rule.status # "Ok" THEN undef.rule
    ELSE IF dimString.status # "Ok" THEN dimString
    ELSE TieDimSource([kp EXCEPT !.bufferSizeRule =
                                     IF rules = <<>> THEN undef.rule.value
                                     ELSE rules[1]],
                      parseDimSource(dimString.value))

\* The size and dim of an InputBuffer/OutputBuffer Tensor node, both
\* mandatory attributes.
TensorBufferFields(kp, sizeRule, dimString, undef) ==
    IF kp.type \notin {"InputBuffer", "OutputBuffer"} THEN Return(kp)
    ELSE IF sizeRule.status # "Ok" THEN sizeRule
    ELSE TensorBufferRule(kp, parseSizeRule(sizeRule.value), dimString, undef)

\* kp.format, kp.argName and kp.portIndex of a Tensor node.
TensorAttrs(kp, format, argName, portIndex) ==
    IF kp.status # "Ok" THEN kp
    ELSE IF format.status # "Ok" THEN format
    ELSE IF argName.status # "Ok" THEN argName
    ELSE IF portIndex.status # "Ok" THEN portIndex
    ELSE Return([kp.value EXCEPT !.format = format.value,
                                 !.argName = argName.value,
                                 !.portIndex = portIndex.value])

\* A Tensor node whose type attribute gave type.
TensorOfType(tensor, type, undef) ==
    IF type.status # "Ok" THEN type
    ELSE TensorAttrs(TensorBufferFields([KernelParam(undef.dimSource)
                                             EXCEPT !.type = type.value],
                                        GetStrAttr(tensor.size), GetStrAttr(tensor.dim),
                                        undef),
                     TensorFormat(tensor.format),
                     GetStrAttr(tensor.argName),
                     GetIntAttr(tensor.portIndex))

\* A Tensor node whose type attribute reads typeStr.
TensorOfTypeStr(tensor, typeStr, undef) ==
    IF typeStr.status # "Ok" THEN typeStr
    ELSE TensorOfType(tensor, TensorType(typeStr.value), undef)

\* One iteration of the Tensor loop: the KernelParam pushed for the node, or
\* the exception thrown.
ParseTensor(tensor, undef) == TensorOfTypeStr(tensor, GetStrAttr(tensor.type), undef)

\* The type of a Data node from its type attribute text.
DataType(typeStr) ==
    IF CaselessEq(typeStr, TypeData) THEN Return("Data")
    ELSE IF CaselessEq(typeStr, TypeLocalData) THEN Return("LocalData")
    ELSE Throw("InvalidDescriptor",
               "Data node has an invalid type '" \o StreamText(typeStr) \o "'")

\* Mutant: a Data node carrying both source and dim is accepted.
DataSourceDimCheck_BothAllowed(irSource, dimString) ==
    IF irSource = <<>> /\ dimString = <<>>
    THEN Throw("InvalidDescriptor", "Data node has no source or dim")
    ELSE Return(TRUE)

\* The two checks of a Data node's source and dim attributes.
DataSourceDimCheck(irSource, dimString) ==
    IF irSource = <<>> /\ dimString = <<>>
    THEN Throw("InvalidDescriptor", "Data node has no source or dim")
    ELSE IF irSource # <<>> /\ dimString # <<>>
    THEN Throw("InvalidDescriptor", "Data node can only have source or dim")
    ELSE Return(TRUE)

\* Mutant: the dim text of a LocalData node is parsed even when it is empty.
LocalDataFields_AlwaysParseDim(kp, data, dimString) ==
    IF kp.type # "LocalData" THEN Return(kp)
    ELSE TieDimSource([kp EXCEPT !.bufferSizeRule = GetStrAttrDef(data.size, <<>>)],
                      parseDimSource(dimString))

\* The size and dim of a LocalData node; a Data node of type data gets
\* neither.
LocalDataFields(kp, data, dimString) ==
    IF kp.type # "LocalData" THEN Return(kp)
    ELSE IF dimString = <<>>
    THEN Return([kp EXCEPT !.bufferSizeRule = GetStrAttrDef(data.size, <<>>)])
    ELSE TieDimSource([kp EXCEPT !.bufferSizeRule = GetStrAttrDef(data.size, <<>>)],
                      parseDimSource(dimString))

\* A Data node past the checks of its source and dim.
DataChecked(kp, data, dimString, check) ==
    IF check.status # "Ok" THEN check
    ELSE LocalDataFields(kp, data, dimString)

\* A Data node with its source and dim attribute texts.
DataSourceOrDim(kp, data, irSource, dimString) ==
    DataChecked([kp EXCEPT !.irSource = irSource], data, dimString,
                DataSourceDimCheck(irSource, dimString))

\* A Data node whose type attribute gave type, with its arg-name.
DataOfType(data, type, argName, undef) ==
    IF type.status # "Ok" THEN type
    ELSE IF argName.status # "Ok" THEN argName
    ELSE DataSourceOrDim([KernelParam(undef.dimSource)
                              EXCEPT !.type = type.value, !.argName = argName.value],
                         data,
                         GetStrAttrDef(data.source, <<>>),
                         GetStrAttrDef(data.dim, <<>>))

\* A Data node whose type attribute reads typeStr.
DataOfTypeStr(data, typeStr, undef) ==
    IF typeStr.status # "Ok" THEN typeStr
    ELSE DataOfType(data, DataType(typeStr.value), GetStrAttr(data.argName), undef)

\* One iteration of the Data loop.
ParseData(data, undef) == DataOfTypeStr(data, GetStrAttr(data.type), undef)

\* The type of a Scalar node from its type attribute text.
ScalarType(typeStr) ==
    IF CaselessEq(typeStr, TypeInt) THEN Return("Int")
    ELSE IF CaselessEq(typeStr, TypeFloat) THEN Return("Float")
    ELSE Throw("InvalidDescriptor",
               "Scalar node has an invalid type " \o StreamText(typeStr))

\* A Scalar node whose type attribute gave type, with its arg-name.
ScalarOfType(scalar, type, argName, undef) ==
    IF type.status # "Ok" THEN type
    ELSE IF argName.status # "Ok" THEN argName
    ELSE Return([KernelParam(undef.dimSource) EXCEPT
             !.type = type.value,
             !.argName = argName.value,
             !.portIndex = GetIntAttrDef(scalar.portIndex, -1),
             !.irSource = GetStrAttrDef(scalar.source, <<>>)])

\* A Scalar node whose type attribute reads typeStr.
ScalarOfTypeStr(scalar, typeStr, undef) ==
    IF typeStr.status # "Ok" THEN typeStr
    ELSE ScalarOfType(scalar, ScalarType(typeStr.value), GetStrAttr(scalar.argName),
                      undef)

\* One iteration of the Scalar loop.
ParseScalar(scalar, undef) ==
    ScalarOfTypeStr(scalar, GetStrAttr(scalar.type), undef)

\* The loop body for a node, by the loop that visits it.
ParseNode(node, undef) ==
    CASE node.tag = "Tensor" -> ParseTensor(node, undef)
      [] node.tag = "Data"   -> ParseData(node, undef)
      [] node.tag = "Scalar" -> ParseScalar(node, undef)

\* The undefined reads that differ in what the iteration for the node does
\* with them: one for each outcome of the iteration.
ElementOutcomes(node) ==
    IF node.tag \notin {"Tensor", "Data", "Scalar"}
    THEN {CHOOSE undef \in ElementUndefs : TRUE}
    ELSE {CHOOSE undef \in ElementUndefs : ParseNode(node, undef) = kp :
             kp \in {ParseNode(node, undef) : undef \in ElementUndefs}}

RECURSIVE UndefinedOutcomes(_)

\* What the undefined reads of a call on the nodes can do: those of the
\* iteration for each node, by the position of the node among the children
\* of <Parameters>.
UndefinedOutcomes(nodes) ==
    IF nodes = <<>> THEN {<<>>}
    ELSE {<<first>> \o rest : first \in ElementOutcomes(Head(nodes)),
                              rest \in UndefinedOutcomes(Tail(nodes))}

RECURSIVE ParseSiblings(_, _, _, _)
RECURSIVE PushAndContinue(_, _, _, _, _)
\* _kernelParams.push_back(std::move(kp)) and the rest of the loop; an
\* exception in the loop body ends the loop and leaves the list as it was.
PushAndContinue(nodes, tags, done, undef, kp) ==
    IF kp.status # "Ok"
    THEN [status |-> kp.status, msg |-> kp.msg, value |-> done.value]
    ELSE ParseSiblings(Tail(nodes), tags, Return(Append(done.value, kp.value)), undef)

\* for (n = parameters.child(tag); !n.empty(); n = n.next_sibling(tag)):
\* visits the nodes named by tags in document order, done.value being
\* _kernelParams so far; the body runs with the undefined reads of the
\* KernelParam it creates for the element, undef being indexed by the
\* position of the element among the children of <Parameters>.
ParseSiblings(nodes, tags, done, undef) ==
    IF nodes = <<>> THEN done
    ELSE IF Head(nodes).tag \notin tags THEN ParseSiblings(Tail(nodes), tags, done, undef)
    ELSE PushAndContinue(nodes, tags, done, undef,
                         ParseNode(Head(nodes), undef[Len(undef) - Len(nodes) + 1]))

\* The next loop of processParametersNode, not reached when an earlier loop
\* threw.
NextLoop(nodes, tags, done, undef) ==
    IF done.status # "Ok" THEN done
    ELSE ParseSiblings(nodes, tags, done, undef)

\* Mutant: one loop over all children in document order.
processParametersNode_DocumentOrder(nodes, kernelParams, undef) ==
    ParseSiblings(nodes, {"Tensor", "Data", "Scalar"}, Return(kernelParams), undef)

\* void CustomKernel::processParametersNode(node): the Tensor loop, then the
\* Data loop, then the Scalar loop, each appending to _kernelParams.  The
\* result's value is _kernelParams after the call or at the throw.
processParametersNode(nodes, kernelParams, undef) ==
    NextLoop(nodes, {"Scalar"},
             NextLoop(nodes, {"Data"},
                      ParseSiblings(nodes, {"Tensor"}, Return(kernelParams), undef),
                      undef),
             undef)

----------------------------------------------------------------------------
(* Explored inputs of the text functions.                                  *)

DimSourceTokens ==
    { <<"i","n","p","u","t">>, <<"I","N","P","U","T">>, <<"I","n","p","u","t">>,
      <<"o","u","t","p","u","t">>, <<"O","u","t","P","u","t">>,
      <<"b","o","g","u","s">>, <<>>, <<"i","n","p","u","t","s">>, <<" ","i","n","p","u","t">> }

IdxAlphabet == {"0", "2", "3", "-", "+", " ", "x", ","}

\* Indices behind the white space that only std::isspace knows.
IdxExamples ==
    { <<"\f","3">>, <<" ","\f","3">>, <<"\\v","2">>, <<"\t","\n","\r","2">>,
      <<"3","\f">>, <<"\f">> }

DimTexts ==
    {tok \o tail : tok \in DimSourceTokens,
                   tail \in {<<>>} \cup {<<",">> \o t :
                                t \in SeqsUpTo(IdxAlphabet, MaxIdxLen) \cup IdxExamples}}

FormatAlphabet == {"B", "F", "Y", "X", "f", "y"}

FormatExamples ==
    { <<"A","N","Y">>, <<"a","n","y">>, <<"A","n","y">>, <<"z","z","z">>,
      <<"N","O","N","E">>, <<"B","F"," ">>, <<"A","N","Y","X">> }

FormatAttrs ==
    {NoAttr} \cup {Attr(t) : t \in SeqsUpTo(FormatAlphabet, MaxFormatLen) \cup FormatExamples}

SizeAlphabet == {"1", "H", "W", ","}

SizeExamples == { <<"X">>, <<"a",",","b",",">>, <<"a",",","b">>, <<"X","*","F",",","2">> }

SizeTexts == SeqsUpTo(SizeAlphabet, MaxSizeLen) \cup SizeExamples

----------------------------------------------------------------------------
(* Calls of the text functions on the explored inputs.                     *)

InitParseDimSource ==
    /\ dims \in DimTexts
    /\ dimSourceResult = NotCalled
    /\ str = NoAttr /\ formatResult = NotCalled
    /\ size = <<>> /\ sizeRuleResult = NotCalled
    /\ parameters = <<>> /\ paramsResult = NotCalled
    /\ NoConstruction
    /\ NoDevice

CallParseDimSource ==
    /\ dimSourceResult.status = "NotCalled"
    /\ dimSourceResult' = parseDimSource(dims)
    /\ UNCHANGED <<dims, str, formatResult, size, sizeRuleResult, parameters, paramsResult>>
    /\ UNCHANGED <<kernelNode, files, pc, ctor, result, visits, accepted>>
    /\ UNCHANGED <<lane, xlinkVars>>

SpecParseDimSource == InitParseDimSource /\ [][CallParseDimSource]_vars

InitFormatFromString ==
    /\ str \in FormatAttrs
    /\ formatResult = NotCalled
    /\ dims = <<>> /\ dimSourceResult = NotCalled
    /\ size = <<>> /\ sizeRuleResult = NotCalled
    /\ parameters = <<>> /\ paramsResult = NotCalled
    /\ NoConstruction
    /\ NoDevice

CallFormatFromString ==
    /\ formatResult.status = "NotCalled"
    /\ formatResult' = TensorFormat(str)
    /\ UNCHANGED <<dims, dimSourceResult, str, size, sizeRuleResult, parameters, paramsResult>>
    /\ UNCHANGED <<kernelNode, files, pc, ctor, result, visits, accepted>>
    /\ UNCHANGED <<lane, xlinkVars>>

SpecFormatFromString == InitFormatFromString /\ [][CallFormatFromString]_vars

InitParseSizeRule ==
    /\ size \in SizeTexts
    /\ sizeRuleResult = NotCalled
    /\ dims = <<>> /\ dimSourceResult = NotCalled
    /\ str = NoAttr /\ formatResult = NotCalled
    /\ parameters = <<>> /\ paramsResult = NotCalled
    /\ NoConstruction
    /\ NoDevice

CallParseSizeRule ==
    /\ sizeRuleResult.status = "NotCalled"
    /\ sizeRuleResult' = Return(parseSizeRule(size))
    /\ UNCHANGED <<dims, dimSourceResult, str, formatResult, size, parameters, paramsResult>>
    /\ UNCHANGED <<kernelNode, files, pc, ctor, result, visits, accepted>>
    /\ UNCHANGED <<lane, xlinkVars>>

SpecParseSizeRule == InitParseSizeRule /\ [][CallParseSizeRule]_vars

----------------------------------------------------------------------------
(* Explored <Parameters> blocks.                                           *)

\* A child element with its attributes.
Node(tag, type, portIndex, format, sizeAttr, dim, source) ==
    [tag |-> tag, type |-> Attr(type), argName |-> Attr(<<"a">>),
     portIndex |-> portIndex, format |-> format, size |-> sizeAttr,
     dim |-> dim, source |-> source]

Text64 == <<"6","4">>
DimInput0 == <<"i","n","p","u","t",",","0">>
DimOutput1 == <<"o","u","t","p","u","t",",","1">>

TensorNodes ==
    { Node("Tensor", TypeInput, IntAttr(0), NoAttr, NoAttr, NoAttr, NoAttr),
      Node("Tensor", <<"O","U","T","P","U","T">>, IntAttr(1),
           Attr(<<"b","y","x","f">>), NoAttr, NoAttr, NoAttr),
      Node("Tensor", TypeInputBuffer, IntAttr(0), NoAttr,
           Attr(<<"X",",","2">>), Attr(DimOutput1), NoAttr),
      Node("Tensor", TypeData, IntAttr(0), NoAttr, NoAttr, NoAttr, NoAttr),
      \* size="" : parseSizeRule returns no element
      Node("Tensor", TypeInputBuffer, IntAttr(0), NoAttr,
           Attr(<<>>), Attr(TypeInput), NoAttr),
      \* no size attribute
      Node("Tensor", TypeOutputBuffer, IntAttr(0), NoAttr,
           NoAttr, Attr(DimInput0), NoAttr),
      \* a Data-only type token on a Tensor
      Node("Tensor", TypeLocalData, IntAttr(0), NoAttr, NoAttr, NoAttr, NoAttr) }

DataNodes ==
    { Node("Data", TypeData, NoIntAttr, NoAttr, NoAttr, NoAttr, Attr(<<"s">>)),
      Node("Data", TypeData, NoIntAttr, NoAttr, NoAttr, Attr(DimInput0), NoAttr),
      Node("Data", TypeData, NoIntAttr, NoAttr, NoAttr, Attr(DimInput0), Attr(<<"s">>)),
      Node("Data", TypeData, NoIntAttr, NoAttr, NoAttr, NoAttr, NoAttr),
      Node("Data", TypeData, NoIntAttr, NoAttr, NoAttr, Attr(<<>>), Attr(<<>>)),
      Node("Data", TypeLocalData, NoIntAttr, NoAttr, Attr(Text64), NoAttr, NoAttr),
      Node("Data", TypeLocalData, NoIntAttr, NoAttr, Attr(Text64), NoAttr, Attr(<<"s">>)),
      Node("Data", <<"L","o","c","a","l","_","D","a","t","a">>, NoIntAttr, NoAttr,
           Attr(<<"X">>), Attr(DimOutput1), NoAttr),
      Node("Data", TypeLocalData, NoIntAttr, NoAttr, NoAttr, Attr(DimInput0), NoAttr),
      Node("Data", TypeLocalData, NoIntAttr, NoAttr, Attr(Text64), Attr(DimInput0),
           Attr(<<"s">>)),
      \* a Tensor-only type token on a Data
      Node("Data", <<"I","n","p","u","t">>, NoIntAttr, NoAttr, NoAttr, NoAttr,
           Attr(<<"s">>)) }

ScalarNodes ==
    { Node("Scalar", TypeInt, NoIntAttr, NoAttr, NoAttr, NoAttr, NoAttr),
      Node("Scalar", <<"F","l","o","a","t">>, IntAttr(2), NoAttr, NoAttr, NoAttr,
           Attr(<<"s">>)),
      Node("Scalar", <<"d","o","u","b","l","e">>, NoIntAttr, NoAttr, NoAttr, NoAttr, NoAttr) }

\* An element the three loops skip.
OtherNodes == { Node("Other", TypeInput, NoIntAttr, NoAttr, NoAttr, NoAttr, NoAttr) }

NodePool == TensorNodes \cup DataNodes \cup ScalarNodes \cup OtherNodes

\* The nodes with arg-name a1, a2, ... by position, so that every parameter
\* names the element it was declared by.
Named(nodes) ==
    [i \in 1..Len(nodes) |->
        [nodes[i] EXCEPT !.argName = Attr(<<"a", DigitChars[i + 1]>>)]]

\* The elements that are explored in the longest blocks.
CoreNodes ==
    { Node("Tensor", TypeInput, IntAttr(0), NoAttr, NoAttr, NoAttr, NoAttr),
      Node("Tensor", <<"O","U","T","P","U","T">>, IntAttr(1),
           Attr(<<"b","y","x","f">>), NoAttr, NoAttr, NoAttr),
      Node("Tensor", TypeInputBuffer, IntAttr(0), NoAttr,
           Attr(<<"X",",","2">>), Attr(DimOutput1), NoAttr),
      Node("Tensor", TypeInputBuffer, IntAttr(0), NoAttr,
           Attr(<<>>), Attr(TypeInput), NoAttr),
      Node("Data", TypeData, NoIntAttr, NoAttr, NoAttr, NoAttr, Attr(<<"s">>)),
      Node("Data", TypeLocalData, NoIntAttr, NoAttr, Attr(Text64), NoAttr, Attr(<<"s">>)),
      Node("Scalar", TypeInt, NoIntAttr, NoAttr, NoAttr, NoAttr, NoAttr),
      Node("Scalar", <<"d","o","u","b","l","e">>, NoIntAttr, NoAttr, NoAttr, NoAttr, NoAttr),
      Node("Other", TypeInput, NoIntAttr, NoAttr, NoAttr, NoAttr, NoAttr) }

\* Every element in every block shorter than MaxChildren, and the blocks of
\* MaxChildren core elements.
ParameterBlocks ==
    {Named(nodes) : nodes \in SeqsUpTo(NodePool, MaxChildren - 1)
                                 \cup SeqsUpTo(CoreNodes, MaxChildren)}

InitProcessParameters ==
    /\ parameters \in ParameterBlocks
    /\ paramsResult = NotCalled
    /\ dims = <<>> /\ dimSourceResult = NotCalled
    /\ str = NoAttr /\ formatResult = NotCalled
    /\ size = <<>> /\ sizeRuleResult = NotCalled
    /\ NoConstruction
    /\ NoDevice

\* processParametersNode on a freshly constructed kernel (_kernelParams
\* empty).
CallProcessParametersNode ==
    /\ paramsResult.status = "NotCalled"
    /\ \E undef \in UndefinedOutcomes(parameters) :
           paramsResult' = processParametersNode(parameters, <<>>, undef)
    /\ UNCHANGED <<dims, dimSourceResult, str, formatResult, size, sizeRuleResult, parameters>>
    /\ UNCHANGED <<kernelNode, files, pc, ctor, result, visits, accepted>>
    /\ UNCHANGED <<lane, xlinkVars>>

SpecProcessParameters == InitProcessParameters /\ [][CallProcessParametersNode]_vars

----------------------------------------------------------------------------
(* Properties of the text functions.                                       *)

\* The text with every character folded to lower case.
Lower(s) == [i \in 1..Len(s) |-> tolower(s[i])]

\* The part of s before its first comma (all of s when it has none).
BeforeComma(s) ==
    LET k == CHOOSE k \in 0..Len(s) :
                 /\ \A j \in 1..k : s[j] # ","
                 /\ (k = Len(s) \/ s[k + 1] = ",")
    IN  SubSeq(s, 1, k)

RECURSIVE Join(_)
\* The elements of a list of texts joined with commas.
Join(list) ==
    IF list = <<>> THEN <<>>
    ELSE IF Len(list) = 1 THEN list[1]
    ELSE list[1] \o <<",">> \o Join(Tail(list))

\* C6: parseDimSource reads the source from the text before the first comma,
\* ignoring case: "input" gives Input, "output" gives Output, and any other
\* left part fails with InvalidDescriptor and returns no pair.
C6_DimSourceFromLeftToken ==
    dimSourceResult.status # "NotCalled" =>
        LET left == Lower(BeforeComma(dims))
        IN  /\ left = <<"i","n","p","u","t">> =>
                /\ dimSourceResult.status # "InvalidDescriptor"
                /\ dimSourceResult.status = "Ok" => dimSourceResult.value[1] = "Input"
            /\ left = <<"o","u","t","p","u","t">> =>
                /\ dimSourceResult.status # "InvalidDescriptor"
                /\ dimSourceResult.status = "Ok" => dimSourceResult.value[1] = "Output"
            /\ left \notin {<<"i","n","p","u","t">>, <<"o","u","t","p","u","t">>} =>
                dimSourceResult.status = "InvalidDescriptor"

\* C6 witness: a mixed-case source followed by an index was parsed to Input.
C6_Witness ==
    /\ dims = <<"I","N","P","U","T",",","2">>
    /\ dimSourceResult = Return(<<"Input", 2>>)

\* C7 (as claimed): an accepted text yields index -1 exactly when it has no
\* comma, and otherwise a non-negative index.
C7_IndexNonNegative ==
    dimSourceResult.status = "Ok" =>
        /\ dimSourceResult.value[2] = -1 <=> count(dims, ",") = 0
        /\ count(dims, ",") > 0 => dimSourceResult.value[2] >= 0

\* C8: formatFromString maps exactly the tokens BFYX, BYXF, FYX, YXF, BF and
\* ANY, in any letter case, to their formats and fails with InvalidDescriptor
\* for any other text; an absent format attribute gives BFYX.
C8_FormatTable ==
    formatResult.status # "NotCalled" =>
        LET low == Lower(str.value)
        IN  /\ ~str.present => formatResult = Return("BFYX")
            /\ str.present /\ low = <<"b","f","y","x">> => formatResult = Return("BFYX")
            /\ str.present /\ low = <<"b","y","x","f">> => formatResult = Return("BYXF")
            /\ str.present /\ low = <<"f","y","x">> => formatResult = Return("FYX")
            /\ str.present /\ low = <<"y","x","f">> => formatResult = Return("YXF")
            /\ str.present /\ low = <<"b","f">> => formatResult = Return("BF")
            /\ str.present /\ low = <<"a","n","y">> => formatResult = Return("Any")
            /\ str.present /\ low \notin { <<"b","f","y","x">>, <<"b","y","x","f">>,
                                           <<"f","y","x">>, <<"y","x","f">>,
                                           <<"b","f">>, <<"a","n","y">> }
                   => formatResult.status = "InvalidDescriptor"

\* C8 witness: a lower-case token was looked up successfully.
C8_Witness ==
    /\ str = Attr(<<"B","f","y","X">>)
    /\ formatResult = Return("BFYX")

\* A text made of non-empty segments separated by single commas.
NonEmptySegments(s) ==
    /\ s # <<>>
    /\ s[1] # "," /\ s[Len(s)] # ","
    /\ \A i \in 1..(Len(s) - 1) : ~(s[i] = "," /\ s[i + 1] = ",")

\* C9: for a text of non-empty comma-separated segments parseSizeRule returns
\* exactly the segments, unmodified and in left-to-right order.
C9_SegmentsInOrder ==
    sizeRuleResult.status # "NotCalled" /\ NonEmptySegments(size) =>
        LET r == sizeRuleResult.value
        IN  /\ Len(r) = count(size, ",") + 1
            /\ \A i \in 1..Len(r) : r[i] # <<>> /\ count(r[i], ",") = 0
            /\ Join(r) = size
            /\ size = <<"1",",","H",",","W">> => r = << <<"1">>, <<"H">>, <<"W">> >>
            /\ size = <<"X">> => r = << <<"X">> >>

\* C9 witness: "1,H,W" was split into its three segments.
C9_Witness ==
    /\ size = <<"1",",","H",",","W">>
    /\ sizeRuleResult = Return(<< <<"1">>, <<"H">>, <<"W">> >>)

\* C10 (as claimed): for every text the result has (number of commas + 1)
\* elements and joining it with commas gives back the text.
C10_SplitKeepsEmptyElements ==
    sizeRuleResult.status # "NotCalled" =>
        /\ Len(sizeRuleResult.value) = count(size, ",") + 1
        /\ Join(sizeRuleResult.value) = size

----------------------------------------------------------------------------
(* Properties of processParametersNode.                                    *)

IsTensorNode(n) == n.tag = "Tensor"
IsDataNode(n) == n.tag = "Data"
IsScalarNode(n) == n.tag = "Scalar"

\* Number of children named tag among the first upto children.
CountTag(tag, upto) == Cardinality({j \in 1..upto : parameters[j].tag = tag})

\* Index that the parameter of child i takes in a list ordered by group
\* (Tensor, Data, Scalar) and by document order within a group.
Slot(i) ==
    LET tag == parameters[i].tag
        before == CASE tag = "Tensor" -> 0
                    [] tag = "Data"   -> CountTag("Tensor", Len(parameters))
                    [] tag = "Scalar" -> CountTag("Tensor", Len(parameters))
                                         + CountTag("Data", Len(parameters))
    IN  before + CountTag(tag, i)

Called == paramsResult.status # "NotCalled"

\* The call threw while parsing child i: every parameter before child i's
\* slot was appended and nothing more.
ThrownAt(i) ==
    /\ paramsResult.status \notin {"NotCalled", "Ok"}
    /\ Len(paramsResult.value) = Slot(i) - 1

\* The call appended a parameter for child i.
PushedFor(i) == Called /\ Len(paramsResult.value) >= Slot(i)

AttrEmpty(attr) == ~attr.present \/ attr.value = <<>>

\* C1: a Parameters block that parses yields one parameter per Tensor, Data
\* and Scalar child: all Tensor children in document order, then all Data
\* children in document order, then all Scalar children in document order.
C1_ParametersGroupedInDocumentOrder ==
    paramsResult.status = "Ok" =>
        LET expected == SelectSeq(parameters, IsTensorNode)
                        \o SelectSeq(parameters, IsDataNode)
                        \o SelectSeq(parameters, IsScalarNode)
            kernelParams == paramsResult.value
        IN  /\ Len(kernelParams)
                 = Cardinality({i \in 1..Len(parameters) :
                                    parameters[i].tag \in {"Tensor", "Data", "Scalar"}})
            /\ Len(kernelParams) = Len(expected)
            /\ \A k \in 1..Len(kernelParams) :
                   kernelParams[k].argName = expected[k].argName.value

\* C1 witness: a block with a Scalar, then a Data, then a Tensor child was
\* parsed into three parameters.
C1_Witness ==
    /\ paramsResult.status = "Ok"
    /\ Len(parameters) = 3
    /\ parameters[1].tag = "Scalar"
    /\ parameters[2].tag = "Data"
    /\ parameters[3].tag = "Tensor"
    /\ Len(paramsResult.value) = 3

\* C2: a Data child whose source and dim are both non-empty, or both absent
\* or empty, makes the call fail with InvalidDescriptor when it is parsed,
\* and no parameter is appended for it.
C2_DataSourceXorDim ==
    Called =>
        \A i \in 1..Len(parameters) :
            LET n == parameters[i]
                both == ~AttrEmpty(n.source) /\ ~AttrEmpty(n.dim)
                neither == AttrEmpty(n.source) /\ AttrEmpty(n.dim)
            IN  n.tag = "Data" /\ (both \/ neither) =>
                    /\ paramsResult.status # "Ok"
                    /\ ~PushedFor(i)
                    /\ \A k \in 1..Len(paramsResult.value) :
                           paramsResult.value[k].argName # n.argName.value
                    /\ ThrownAt(i) =>
                           /\ paramsResult.status = "InvalidDescriptor"
                           /\ both => paramsResult.msg = "Data node can only have source or dim"
                           /\ neither => paramsResult.msg = "Data node has no source or dim"

\* C2 witness: the call threw at a Data child carrying both source and dim,
\* after appending the parameter before it.
C2_Witness ==
    \E i \in 1..Len(parameters) :
        /\ parameters[i].tag = "Data"
        /\ ~AttrEmpty(parameters[i].source) /\ ~AttrEmpty(parameters[i].dim)
        /\ ThrownAt(i)
        /\ Len(paramsResult.value) = 1
        /\ paramsResult.status = "InvalidDescriptor"

\* The parameter carries the dimension source and index parsed from the dim
\* attribute of the element that declared it.
DimParsed(n, kp) ==
    /\ ~AttrEmpty(n.dim)
    /\ parseDimSource(n.dim.value) = Return(<<kp.dimSource, kp.dimIdx>>)

\* C3 (as claimed): after a successful call every Data parameter has exactly
\* one of a non-empty irSource and a dimension source parsed from its dim
\* attribute.
C3_DataHasExactlyOneSource ==
    paramsResult.status = "Ok" =>
        \A i \in 1..Len(parameters) :
            (parameters[i].tag \in {"Tensor", "Data"}
                 /\ paramsResult.value[Slot(i)].type = "Data") =>
                (paramsResult.value[Slot(i)].irSource # <<>>)
                    # DimParsed(parameters[i], paramsResult.value[Slot(i)])

IsLocalData64NoDim(n) ==
    /\ n.tag = "Data"
    /\ n.type.present /\ Lower(n.type.value) = TypeLocalData
    /\ n.argName.present
    /\ n.size = Attr(Text64)
    /\ ~n.dim.present

\* The parameter of a LocalData child with size 64 and no dim.
LocalData64Param(n, kp) ==
    /\ kp.type = "LocalData"
    /\ kp.argName = n.argName.value
    /\ kp.bufferSizeRule = Text64
    /\ kp.dimIdx = -1

\* C4 (as claimed): a local_data Data child with an arg-name, size="64" and
\* no dim is parsed without failure into a LocalData parameter with
\* bufferSizeRule "64" and dimension index -1.
C4_LocalDataWithoutDimParses ==
    Called =>
        \A i \in 1..Len(parameters) :
            IsLocalData64NoDim(parameters[i]) =>
                /\ ~ThrownAt(i)
                /\ PushedFor(i) =>
                       LocalData64Param(parameters[i], paramsResult.value[Slot(i)])

\* C4 (amended): such a child is parsed without failure, into a LocalData
\* parameter with bufferSizeRule "64" and dimension index -1, when it also
\* carries a non-empty source; without one it fails with InvalidDescriptor
\* ("Data node has no source or dim") and appends nothing.
C4_LocalDataWithoutDimNeedsSource ==
    Called =>
        \A i \in 1..Len(parameters) :
            IsLocalData64NoDim(parameters[i]) =>
                IF AttrEmpty(parameters[i].source)
                THEN /\ ~PushedFor(i)
                     /\ ThrownAt(i) =>
                            /\ paramsResult.status = "InvalidDescriptor"
                            /\ paramsResult.msg = "Data node has no source or dim"
                ELSE /\ ~ThrownAt(i)
                     /\ PushedFor(i) =>
                            /\ LocalData64Param(parameters[i], paramsResult.value[Slot(i)])
                            /\ paramsResult.value[Slot(i)].irSource
                                   = parameters[i].source.value

\* C4 witness: a local_data child with size 64, a source and no dim was
\* parsed after another parameter.
C4_Witness ==
    /\ paramsResult.status = "Ok"
    /\ \E i \in 1..Len(parameters) :
           /\ IsLocalData64NoDim(parameters[i])
           /\ ~AttrEmpty(parameters[i].source)
           /\ PushedFor(i)
           /\ Slot(i) > 1

\* C5 (as claimed): after a successful call every InputBuffer, OutputBuffer
\* and LocalData parameter has a non-empty bufferSizeRule, and every
\* InputBuffer and OutputBuffer parameter a parsed dimension source.
C5_BufferSizeRuleRequired ==
    paramsResult.status = "Ok" =>
        \A i \in 1..Len(parameters) :
            parameters[i].tag \in {"Tensor", "Data"} =>
                LET kp == paramsResult.value[Slot(i)]
                IN  /\ kp.type \in {"InputBuffer", "OutputBuffer", "LocalData"} =>
                           kp.bufferSizeRule # <<>>
                    /\ kp.type \in {"InputBuffer", "OutputBuffer"} =>
                           DimParsed(parameters[i], kp)

----------------------------------------------------------------------------
(* CustomKernel::loadKernelBinary                                          *)

\* configDir + "/" + filename
KernelFileName(configDir, source) ==
    configDir \o <<"/">> \o GetStrAttrDef(source.filename, <<>>)

\* std::ifstream inputFile(fileName): the files that can be opened are the
\* records of the file system, each with its path and contents.
is_open(fileSystem, fileName) == \E f \in fileSystem : f.path = fileName

\* contentStream << inputFile.rdbuf(): the whole contents of the file.
rdbuf(fileSystem, fileName) ==
    (CHOOSE f \in fileSystem : f.path = fileName).contents

\* The body of the loop over the Source children: it returns or throws on
\* its first pass.
LoadSource(fileSystem, fileName) ==
    IF ~is_open(fileSystem, fileName)
    THEN Throw("FileNotFound", "Couldn't open kernel file")
    ELSE Return(rdbuf(fileSystem, fileName))

\* Mutant: a Source child that cannot be opened is skipped.
loadKernelBinary_FirstReadable(sources, configDir, fileSystem) ==
    IF \E i \in 1..Len(sources) :
           is_open(fileSystem, KernelFileName(configDir, sources[i]))
    THEN Return(rdbuf(fileSystem,
             KernelFileName(configDir,
                 sources[CHOOSE i \in 1..Len(sources) :
                     /\ is_open(fileSystem, KernelFileName(configDir, sources[i]))
                     /\ \A j \in 1..(i - 1) :
                            ~is_open(fileSystem, KernelFileName(configDir, sources[j]))])))
    ELSE IF sources = <<>> THEN Throw("InvalidDescriptor", "Kernel binary not found")
    ELSE Throw("FileNotFound", "Couldn't open kernel file")

\* std::string CustomKernel::loadKernelBinary(node, configDir); sources are
\* the Source children of the node in document order.
loadKernelBinary(sources, configDir, fileSystem) ==
    IF sources = <<>> THEN Throw("InvalidDescriptor", "Kernel binary not found")
    ELSE LoadSource(fileSystem, KernelFileName(configDir, Head(sources)))

----------------------------------------------------------------------------
(* processWorkSizesNode of the two kernel classes                          *)

\* std::tie(_wgDimSource, _wgDimIdx) = parseDimSource(dims)
TieWgDim(obj, dimSource) ==
    IF dimSource.status # "Ok" THEN dimSource
    ELSE Return([obj EXCEPT !._wgDimSource = dimSource.value[1],
                            !._wgDimIdx = dimSource.value[2]])

\* dims = GetStrAttr(workSizes, "dim"), then parseDimSource(dims)
WgDimOfAttr(obj, dimText) ==
    IF dimText.status # "Ok" THEN dimText
    ELSE TieWgDim(obj, parseDimSource(dimText.value))

\* void CustomCppKernel::processWorkSizesNode(node): the kernel object after
\* the call, or the exception.
CustomCppKernel_processWorkSizesNode(obj, workSizes) ==
    WgDimOfAttr(obj, GetStrAttr(workSizes.dim))

\* _localGridSizeRules = parseSizeRule(GetStrAttr(workSizes, "local"))
LocalGridOfAttr(obj, lcl) ==
    IF lcl.status # "Ok" THEN lcl
    ELSE Return([obj EXCEPT !._localGridSizeRules = parseSizeRule(lcl.value)])

\* _globalGridSizeRules = parseSizeRule(GetStrAttr(workSizes, "global")),
\* then the local attribute.
GlobalGridOfAttr(obj, glb, lclAttr) ==
    IF glb.status # "Ok" THEN glb
    ELSE LocalGridOfAttr([obj EXCEPT !._globalGridSizeRules = parseSizeRule(glb.value)],
                         GetStrAttr(lclAttr))

\* The global and local attributes are read once dim has been parsed.
GridAfterDim(withDim, workSizes) ==
    IF withDim.status # "Ok" THEN withDim
    ELSE GlobalGridOfAttr(withDim.value, GetStrAttr(workSizes.global), workSizes.local)

\* Mutant: the global and the local attribute are exchanged.
CustomClKernel_processWorkSizesNode_Swapped(obj, workSizes) ==
    GridAfterDim(WgDimOfAttr(obj, GetStrAttr(workSizes.dim)),
                 [workSizes EXCEPT !.global = workSizes.local,
                                   !.local = workSizes.global])

\* void CustomClKernel::processWorkSizesNode(node): the kernel object after
\* the call, or the exception.
CustomClKernel_processWorkSizesNode(obj, workSizes) ==
    GridAfterDim(WgDimOfAttr(obj, GetStrAttr(workSizes.dim)), workSizes)

----------------------------------------------------------------------------
(* _inputDataCount                                                         *)

\* The isInputData lambda of the CustomCppKernel constructor.
CustomCppKernel_isInputData(param) ==
    param.type = "Input" \/ param.type = "InputBuffer" \/ param.type = "Data"

\* Mutant: Data parameters are not counted.
CustomCppKernel_inputDataCount_NoData(kernelParams) ==
    Cardinality({i \in 1..Len(kernelParams) :
                    kernelParams[i].type \in {"Input", "InputBuffer"}})

\* std::count_if(begin(_kernelParams), end(_kernelParams), isInputData) in
\* the CustomCppKernel constructor.
CustomCppKernel_inputDataCount(kernelParams) ==
    Cardinality({i \in 1..Len(kernelParams) :
                    CustomCppKernel_isInputData(kernelParams[i])})

\* The isInputData lambda of the CustomClKernel constructor.
CustomClKernel_isInputData(param) ==
    param.type = "Input" \/ param.type = "InputBuffer" \/ param.type = "Data"

\* std::count_if(begin(_kernelParams), end(_kernelParams), isInputData) in
\* the CustomClKernel constructor.
CustomClKernel_inputDataCount(kernelParams) ==
    Cardinality({i \in 1..Len(kernelParams) :
                    CustomClKernel_isInputData(kernelParams[i])})

\* Mutant: the names are collected back to front.
ArgNames_Reversed(kernelParams) ==
    [i \in 1..Len(kernelParams) |->
        kernelParams[Len(kernelParams) + 1 - i].argName]

\* for (param : _kernelParams) _parameters.push_back(param.argName)
ArgNames(kernelParams) ==
    [i \in 1..Len(kernelParams) |-> kernelParams[i].argName]

----------------------------------------------------------------------------
(* The kernel binary and get_elf_section_with_name                         *)

(* A kernel binary is the len bytes of the std::string _kernelBinary, whose *)
(* byte at index len is NUL.  The model names what the bytes hold: the     *)
(* four fields of the Elf32Ehdr at offset 0 that the code reads, section   *)
(* headers (shdrs), strings (strs) and kernel metadata (meta), each at a   *)
(* byte offset (at); integers are little-endian and the bytes nothing      *)
(* describes are zero.  The code reads bytes: ByteAt gives the byte at an  *)
(* offset whatever it belongs to.  A read past index len is "OutOfBounds". *)

\* struct Elf32Ehdr { pad0[7]; ePhoff; eShoff; pad1[3]; eShnum; eShstrndx }:
\* the offsets of its fields and its size
Elf32Ehdr ==
    [ePhoff |-> 7 * 4, eShoff |-> 7 * 4 + 4, eShnum |-> 7 * 4 + 4 + 4 + 3 * 4,
     eShstrndx |-> 7 * 4 + 4 + 4 + 3 * 4 + 2, sizeof |-> 7 * 4 + 4 + 4 + 3 * 4 + 2 + 2]

\* struct Elf32Shdr { shName; pad0[3]; shOffset; shSize; pad1[4] }
Elf32Shdr ==
    [shName |-> 0, shOffset |-> 4 + 3 * 4, shSize |-> 4 + 3 * 4 + 4,
     sizeof |-> 4 + 3 * 4 + 4 + 4 + 4 * 4]

OutOfBounds == [status |-> "OutOfBounds", msg |-> "", value |-> <<>>]

\* A read of bytes of the kernel metadata, whose encoding the model does
\* not describe: the value read is not known.
Opaque == [status |-> "Opaque", msg |-> "", value |-> <<>>]

\* IE_ASSERT(expr) that failed
AssertionFailed == Throw("MalformedBinary", "AssertionFailed")

\* The characters with the codes 32 .. 126 of the execution character set;
\* "grave" stands for the grave accent (96), which a string cannot hold.
AsciiChars ==
    <<" ","!","\"","#","$","%","&","'","(",")","*","+",",","-",".","/",
      "0","1","2","3","4","5","6","7","8","9",":",";","<","=",">","?",
      "@","A","B","C","D","E","F","G","H","I","J","K","L","M","N","O",
      "P","Q","R","S","T","U","V","W","X","Y","Z","[","\\","]","^","_",
      "grave","a","b","c","d","e","f","g","h","i","j","k","l","m","n","o",
      "p","q","r","s","t","u","v","w","x","y","z","{","|","}","~">>

\* The byte that holds the character c.
CharCode(c) == 31 + (CHOOSE i \in 1..Len(AsciiChars) : AsciiChars[i] = c)

\* p + n on a pointer into the binary; every offset from IntMax on is
\* outside any payload and stands for all of them.
PtrAdd(p, n) == IF p > IntMax - n THEN IntMax ELSE p + n

\* elf_data[offset] for offset <= len: a number 0 .. 255, or -1 for a byte
\* of the kernel metadata.
ByteAt(elf, offset) ==
    LET FieldByte(v, k) == (v \div (256 ^ k)) % 256
        In(at, n) == at <= offset /\ offset < at + n
    IN  IF offset >= elf.len THEN 0
        ELSE IF offset < Elf32Ehdr.sizeof
        THEN (IF In(Elf32Ehdr.ePhoff, 4)
              THEN FieldByte(elf.ePhoff, offset - Elf32Ehdr.ePhoff)
              ELSE IF In(Elf32Ehdr.eShoff, 4)
              THEN FieldByte(elf.eShoff, offset - Elf32Ehdr.eShoff)
              ELSE IF In(Elf32Ehdr.eShnum, 2)
              THEN FieldByte(elf.eShnum, offset - Elf32Ehdr.eShnum)
              ELSE IF In(Elf32Ehdr.eShstrndx, 2)
              THEN FieldByte(elf.eShstrndx, offset - Elf32Ehdr.eShstrndx)
              ELSE 0)
        ELSE IF \E h \in elf.shdrs : In(h.at, Elf32Shdr.sizeof)
        THEN (LET h == CHOOSE h \in elf.shdrs : In(h.at, Elf32Shdr.sizeof)
              IN  IF In(h.at + Elf32Shdr.shName, 4)
                  THEN FieldByte(h.shName, offset - h.at - Elf32Shdr.shName)
                  ELSE IF In(h.at + Elf32Shdr.shOffset, 4)
                  THEN FieldByte(h.shOffset, offset - h.at - Elf32Shdr.shOffset)
                  ELSE IF In(h.at + Elf32Shdr.shSize, 4)
                  THEN FieldByte(h.shSize, offset - h.at - Elf32Shdr.shSize)
                  ELSE 0)
        ELSE IF \E c \in elf.strs : In(c.at, Len(c.text))
        THEN (LET c == CHOOSE c \in elf.strs : In(c.at, Len(c.text))
              IN  CharCode(c.text[offset - c.at + 1]))
        ELSE IF \E m \in elf.meta : In(m.at, m.size) THEN -1
        ELSE 0

\* *(const uintN_t*)(elf_data + offset), N = 8 * width, width 2 or 4: the
\* little-endian value of the bytes; values from 2^31 on are offsets
\* outside any payload and read as IntMax.
ReadUInt(elf, offset, width) ==
    IF offset > elf.len - (width - 1) THEN OutOfBounds
    ELSE IF \E k \in 0..(width - 1) : ByteAt(elf, offset + k) < 0 THEN Opaque
    ELSE IF width = 2
    THEN Return(ByteAt(elf, offset) + 256 * ByteAt(elf, offset + 1))
    ELSE IF ByteAt(elf, offset + 3) >= 128 THEN Return(IntMax)
    ELSE Return(ByteAt(elf, offset) + 256 * ByteAt(elf, offset + 1)
                    + 65536 * ByteAt(elf, offset + 2)
                    + 16777216 * ByteAt(elf, offset + 3))

\* The header a pointer to an Elf32Shdr at offset gives the constructor:
\* ->shOffset and ->shSize.
ReadShdr(elf, offset) ==
    LET shOffset == ReadUInt(elf, PtrAdd(offset, Elf32Shdr.shOffset), 4)
        shSize == ReadUInt(elf, PtrAdd(offset, Elf32Shdr.shSize), 4)
    IN  IF shOffset.status # "Ok" THEN shOffset
        ELSE IF shSize.status # "Ok" THEN shSize
        ELSE Return([shOffset |-> shOffset.value, shSize |-> shSize.value])

\* A header whose fields are zero.
ZeroShdr == [shOffset |-> 0, shSize |-> 0]

RECURSIVE strcmp(_, _, _, _)

\* 0 == strcmp(elf_data + offset, s) from the j-th character on: the bytes
\* are compared up to the first that differs or the NUL that ends both.
strcmp(elf, offset, s, j) ==
    LET byte == ByteAt(elf, PtrAdd(offset, j))
        char == IF j < Len(s) THEN CharCode(s[j + 1]) ELSE 0
    IN  IF PtrAdd(offset, j) > elf.len THEN OutOfBounds
        ELSE IF byte < 0 THEN Opaque
        ELSE IF byte # char THEN Return(FALSE)
        ELSE IF byte = 0 THEN Return(TRUE)
        ELSE strcmp(elf, offset, s, j + 1)

\* nullptr
NoSection == [status |-> "NotFound", msg |-> "", value |-> <<>>]

RECURSIVE ScanSections(_, _, _, _, _, _)

\* if (0 == strcmp(currentSectionName, section_name)) return shdr + i;
\* otherwise the rest of the loop.
ScanNext(elf, eShoff, firstStr, section_name, eShnum, i, equal) ==
    IF equal.status # "Ok" THEN equal
    ELSE IF equal.value THEN Return(PtrAdd(eShoff, i * Elf32Shdr.sizeof))
    ELSE ScanSections(elf, eShoff, firstStr, section_name, eShnum, i + 1)

\* currentSectionName = firstStr + shdr[i].shName
SectionName(elf, eShoff, firstStr, section_name, eShnum, i, shName) ==
    IF shName.status # "Ok" THEN shName
    ELSE ScanNext(elf, eShoff, firstStr, section_name, eShnum, i,
                  strcmp(elf, PtrAdd(firstStr, shName.value), section_name, 0))

\* for (uint16_t i = 0; i < ehdr->eShnum; i++): the first section header
\* whose name is section_name, nullptr without one.
ScanSections(elf, eShoff, firstStr, section_name, eShnum, i) ==
    IF eShnum.status # "Ok" THEN eShnum
    ELSE IF i >= eShnum.value THEN NoSection
    ELSE SectionName(elf, eShoff, firstStr, section_name, eShnum, i,
                     ReadUInt(elf, PtrAdd(PtrAdd(eShoff, i * Elf32Shdr.sizeof),
                                          Elf32Shdr.shName), 4))

\* firstStr = elf_data + strShdr->shOffset, then the loop
ScanFrom(elf, section_name, eShoff, firstStr) ==
    IF firstStr.status # "Ok" THEN firstStr
    ELSE ScanSections(elf, eShoff, firstStr.value, section_name,
                      ReadUInt(elf, Elf32Ehdr.eShnum, 2), 0)

\* const Elf32Shdr* get_elf_section_with_name(elf_data, section_name):
\* Return(offset) for the pointer to the header found, NoSection for
\* nullptr, a failed assertion, or the read that left the payload.  strShdr
\* is never null.
get_elf_section_with_name(elf, section_name) ==
    LET eShoff == ReadUInt(elf, Elf32Ehdr.eShoff, 4)
        ePhoff == ReadUInt(elf, Elf32Ehdr.ePhoff, 4)
        eShstrndx == ReadUInt(elf, Elf32Ehdr.eShstrndx, 2)
    IN  IF eShoff.status # "Ok" THEN eShoff
        ELSE IF eShoff.value = 0 THEN AssertionFailed
        ELSE IF ePhoff.status # "Ok" THEN ePhoff
        ELSE IF ePhoff.value = 0 THEN AssertionFailed
        ELSE IF eShstrndx.status # "Ok" THEN eShstrndx
        ELSE ScanFrom(elf, section_name, eShoff.value,
                      ReadUInt(elf,
                               PtrAdd(PtrAdd(eShoff.value,
                                             eShstrndx.value * Elf32Shdr.sizeof),
                                      Elf32Shdr.shOffset),
                               4))

----------------------------------------------------------------------------
(* md_parser_t, the metadata parser of the kernel binary                   *)

(* The metadata of a binary is a table of kernels; a kernel has a name,    *)
(* its arg_count field and its argument records; an argument record has a *)
(* name and a set of flags, or cannot be decoded.                          *)

\* nullptr of the parser's lookups
nullptr == [null |-> TRUE]

\* md_parser_t parser{neoMetadata, neoMetadataSize, neoMetadataStr,
\* neoMetadataStrSize}: the kernel table in the bytes of the two sections.
md_parser_t(elf, neoMetadataShdr, neoMetadataStrShdr) ==
    IF \/ PtrAdd(neoMetadataShdr.shOffset, neoMetadataShdr.shSize) > elf.len
       \/ PtrAdd(neoMetadataStrShdr.shOffset, neoMetadataStrShdr.shSize) > elf.len
    THEN OutOfBounds
    ELSE IF \E m \in elf.meta : m.at = neoMetadataShdr.shOffset
    THEN Return([kernels |->
                    (CHOOSE m \in elf.meta : m.at = neoMetadataShdr.shOffset).kernels])
    ELSE Return([kernels |-> <<>>])

\* parser.get_kernel_id(name): the index of the first kernel of that name,
\* -1 without one.
get_kernel_id(parser, name) ==
    IF \E i \in 1..Len(parser.kernels) : parser.kernels[i].name = name
    THEN (CHOOSE i \in 1..Len(parser.kernels) :
             /\ parser.kernels[i].name = name
             /\ \A j \in 1..(i - 1) : parser.kernels[j].name # name) - 1
    ELSE -1

\* parser.get_kernel_count()
get_kernel_count(parser) == Len(parser.kernels)

\* parser.get_kernel(kernelId)
get_kernel(parser, kernelId) ==
    IF 0 <= kernelId /\ kernelId < Len(parser.kernels)
    THEN parser.kernels[kernelId + 1]
    ELSE nullptr

\* parser.get_argument(kernelDesc, i)
get_argument(kernelDesc, i) ==
    IF i < Len(kernelDesc.args) /\ kernelDesc.args[i + 1].decodable
    THEN kernelDesc.args[i + 1]
    ELSE nullptr

\* parser.get_name(arg)
get_name(arg) == arg.name

----------------------------------------------------------------------------
(* deduceKernelParameters                                                  *)

\* i < argCount, where argCount = kernelDesc->arg_count - 1 in uint32_t:
\* arg_count 0 wraps to 2^32 - 1, which no index of the loop reaches.
BelowArgCount(i, arg_count) ==
    IF arg_count = 0 THEN TRUE ELSE i < arg_count - 1

RECURSIVE DeduceFrom(_, _, _)

\* Mutant: flagged arguments are kept.
DeduceArg_KeepFlagged(kernelDesc, i, arguments, arg) ==
    IF arg = nullptr
    THEN Throw("MetadataParser", "Error while parsing custom layer elf file.")
    ELSE DeduceFrom(kernelDesc, i + 1, Append(arguments, get_name(arg)))

\* One pass of the loop for the argument that get_argument gave.
DeduceArg(kernelDesc, i, arguments, arg) ==
    IF arg = nullptr
    THEN Throw("MetadataParser", "Error while parsing custom layer elf file.")
    ELSE IF "generated_prepost" \in arg.flags
    THEN DeduceFrom(kernelDesc, i + 1, arguments)
    ELSE DeduceFrom(kernelDesc, i + 1, Append(arguments, get_name(arg)))

\* for (i = 0; i < argCount; i++) from index i on
DeduceFrom(kernelDesc, i, arguments) ==
    IF ~BelowArgCount(i, kernelDesc.arg_count) THEN Return(arguments)
    ELSE DeduceArg(kernelDesc, i, arguments, get_argument(kernelDesc, i))

\* IE_ASSERT(kernelDesc != nullptr); arguments.reserve(argCount); the loop.
\* reserved tells whether reserving 2^32 - 1 elements succeeded.
DeduceKernel(kernelDesc, reserved) ==
    IF kernelDesc = nullptr THEN AssertionFailed
    ELSE IF kernelDesc.arg_count = 0 /\ ~reserved THEN Throw("std::bad_alloc", "")
    ELSE DeduceFrom(kernelDesc, 0, <<>>)

\* SmallVector<std::string> deduceKernelParameters(parser, kernelId)
deduceKernelParameters(parser, kernelId, reserved) ==
    DeduceKernel(get_kernel(parser, kernelId), reserved)

----------------------------------------------------------------------------
(* The constructors of CustomCppKernel and CustomClKernel, statement by    *)
(* statement                                                               *)

EmptyBinary ==
    [len |-> 0, ePhoff |-> 0, eShoff |-> 0, eShnum |-> 0, eShstrndx |-> 0,
     shdrs |-> {}, strs |-> {}, meta |-> {}]

\* The members of CustomKernel with their default member initializers.
CustomKernel ==
    [_kernelBinary |-> EmptyBinary, _kernelParams |-> <<>>, _parameters |-> <<>>,
     _wgDimSource |-> "Input", _wgDimIdx |-> -1, _maxShaves |-> 0,
     _inputDataCount |-> 0]

\* CustomCppKernel adds no member.
CustomCppKernel == CustomKernel

\* CustomClKernel adds the grid size rules and the kernel id.
CustomClKernel ==
    CustomKernel @@
    [_globalGridSizeRules |-> <<>>, _localGridSizeRules |-> <<>>, _kernelId |-> 0]

\* The object under construction (this) and the local variables of the
\* CustomClKernel constructor.
NewFrame(variant) ==
    [this |-> IF variant = "Cpp" THEN CustomCppKernel ELSE CustomClKernel,
     kernelEntryName |-> <<>>, neoMetadata |-> ZeroShdr, parser |-> [built |-> FALSE]]

\* Mutant: the caller gets the error together with the object as far as
\* it was constructed.
Fail_ExposePartial(frame, error) == [error EXCEPT !.value = frame.this]

\* The exception leaves the constructor: the caller gets the error and no
\* object.
Fail(frame, error) == [error EXCEPT !.value = <<>>]

\* What a read outside the payload (undefined behaviour) can do: end the
\* process, or yield bytes of whatever lies there, which may or may not
\* look like the section and may hold any kernel table.  A walk led by the
\* bytes of the metadata goes wherever their values send it, outside the
\* payload too, and can do the same.
Resolve(outcome, crash, read) ==
    IF outcome.status \notin {"OutOfBounds", "Opaque"} THEN outcome
    ELSE IF crash THEN Throw("Crash", "read outside the kernel binary")
    ELSE read

\* _maxShaves = XMLParseUtils::GetIntAttr(node, "max-shaves", 0)
ReadMaxShaves(frame, node) ==
    Return([frame EXCEPT !.this._maxShaves = GetIntAttrDef(node.maxShaves, 0)])

\* _kernelBinary = loadKernelBinary(node, configDir)
LoadKernelBinary(frame, node, fileSystem) ==
    LET binary == loadKernelBinary(node.sources, node.configDir, fileSystem)
    IN  IF binary.status # "Ok" THEN binary
        ELSE Return([frame EXCEPT !.this._kernelBinary = binary.value])

\* processParametersNode(node), which appends to this->_kernelParams
ProcessParametersNode(frame, node, undef) ==
    LET kernelParams ==
            processParametersNode(node.parameters, frame.this._kernelParams, undef)
    IN  IF kernelParams.status # "Ok" THEN kernelParams
        ELSE Return([frame EXCEPT !.this._kernelParams = kernelParams.value])

\* processWorkSizesNode(node), a virtual call on the class being constructed
ProcessWorkSizesNode(frame, node) ==
    LET obj == IF node.variant = "Cpp"
               THEN CustomCppKernel_processWorkSizesNode(frame.this, node.workSizes)
               ELSE CustomClKernel_processWorkSizesNode(frame.this, node.workSizes)
    IN  IF obj.status # "Ok" THEN obj ELSE Return([frame EXCEPT !.this = obj.value])

\* _inputDataCount = std::count_if(...)
CountInputData(frame, node) ==
    Return([frame EXCEPT !.this._inputDataCount =
               IF node.variant = "Cpp"
               THEN CustomCppKernel_inputDataCount(frame.this._kernelParams)
               ELSE CustomClKernel_inputDataCount(frame.this._kernelParams)])

\* The loop that ends the CustomCppKernel constructor; push_back appends to
\* this->_parameters.
CollectParameters(frame) ==
    Return([frame EXCEPT !.this._parameters = @ \o ArgNames(frame.this._kernelParams)])

\* const auto kernelEntryName = XMLParseUtils::GetStrAttr(node, "entry")
ReadEntry(frame, node) ==
    LET entry == GetStrAttr(node.entry)
    IN  IF entry.status # "Ok" THEN entry
        ELSE Return([frame EXCEPT !.kernelEntryName = entry.value])

NeoMetadataName == <<".","n","e","o","_","m","e","t","a","d","a","t","a">>

NeoMetadataStrName == NeoMetadataName \o <<".","s","t","r">>

\* VPU_THROW_UNLESS(neoMetadataShdr, ...), then neoMetadata and
\* neoMetadataSize from the section header
RequireNeoMetadata(frame, neoMetadataShdr) ==
    IF neoMetadataShdr.status = "NotFound"
    THEN Throw("MalformedBinary", "Couldn't find .neo_metadata section")
    ELSE IF neoMetadataShdr.status # "Ok" THEN neoMetadataShdr
    ELSE Return([frame EXCEPT !.neoMetadata = neoMetadataShdr.value])

\* The section header a lookup gives the constructor: nullptr or the
\* exception of the lookup, else what ->shOffset and ->shSize read.
SectionHeader(elf, section) ==
    IF section.status # "Ok" THEN section ELSE ReadShdr(elf, section.value)

\* neoMetadataShdr = get_elf_section_with_name(elf, ".neo_metadata")
FindNeoMetadata(frame, ub) ==
    RequireNeoMetadata(frame,
        Resolve(SectionHeader(frame.this._kernelBinary,
                              get_elf_section_with_name(frame.this._kernelBinary,
                                                        NeoMetadataName)),
                ub.crash, ub.section))

\* VPU_THROW_UNLESS(neoMetadataStrShdr, ...), then the md_parser_t over the
\* two sections
RequireNeoMetadataStr(frame, neoMetadataStrShdr, ub) ==
    IF neoMetadataStrShdr.status = "NotFound"
    THEN Throw("MalformedBinary", "Couldn't find .neo_metadata.str section")
    ELSE IF neoMetadataStrShdr.status # "Ok" THEN neoMetadataStrShdr
    ELSE LET parser == Resolve(md_parser_t(frame.this._kernelBinary, frame.neoMetadata,
                                           neoMetadataStrShdr.value),
                               ub.crash, Return([kernels |-> ub.kernels]))
         IN  IF parser.status # "Ok" THEN parser
             ELSE Return([frame EXCEPT !.parser = parser.value])

\* neoMetadataStrShdr = get_elf_section_with_name(elf, ".neo_metadata.str")
FindNeoMetadataStr(frame, ub) ==
    RequireNeoMetadataStr(frame,
        Resolve(SectionHeader(frame.this._kernelBinary,
                              get_elf_section_with_name(frame.this._kernelBinary,
                                                        NeoMetadataStrName)),
                ub.crash, ub.section),
        ub)

\* VPU_THROW_UNLESS(parser.get_kernel_count() == 1, ...)
RequireOneKernel(frame) ==
    IF get_kernel_count(frame.parser) # 1
    THEN Throw("BinaryMismatch",
               "binary should contain only one kernel, but contains "
                   \o ToString(get_kernel_count(frame.parser)))
    ELSE Return(frame)

\* Mutant: the kernel count is checked before the kernel is looked up.
ResolveKernel_CountFirst(frame) ==
    IF get_kernel_count(frame.parser) # 1
    THEN Throw("BinaryMismatch",
               "binary should contain only one kernel, but contains "
                   \o ToString(get_kernel_count(frame.parser)))
    ELSE IF get_kernel_id(frame.parser, frame.kernelEntryName) = -1
    THEN Throw("BinaryMismatch", "Failed to find kernel with name")
    ELSE Return([frame EXCEPT !.this._kernelId =
                    get_kernel_id(frame.parser, frame.kernelEntryName)])

\* _kernelId = parser.get_kernel_id(kernelEntryName);
\* VPU_THROW_UNLESS(_kernelId != -1, ...), then the kernel count
ResolveKernel(frame) ==
    IF get_kernel_id(frame.parser, frame.kernelEntryName) = -1
    THEN Throw("BinaryMismatch", "Failed to find kernel with name")
    ELSE RequireOneKernel([frame EXCEPT !.this._kernelId =
                              get_kernel_id(frame.parser, frame.kernelEntryName)])

\* _parameters = deduceKernelParameters(parser, _kernelId)
DeduceParameters(frame, reserved) ==
    LET names == deduceKernelParameters(frame.parser, frame.this._kernelId, reserved)
    IN  IF names.status # "Ok" THEN names
        ELSE Return([frame EXCEPT !.this._parameters = names.value])

\* Mutant: the kernel binary is loaded after Parameters and WorkSizes have
\* been parsed.
NextStatement_LoadAfterXml(statement, variant) ==
    CASE statement = "max-shaves" -> "processParametersNode"
      [] statement = "processParametersNode" -> "processWorkSizesNode"
      [] statement = "processWorkSizesNode" -> "loadKernelBinary"
      [] statement = "loadKernelBinary" -> "inputDataCount"
      [] statement = "inputDataCount" /\ variant = "Cpp" -> "parameters"
      [] statement = "inputDataCount" /\ variant # "Cpp" -> "entry"
      [] statement = "parameters" -> "constructed"
      [] statement = "entry" -> "neo_metadata"
      [] statement = "neo_metadata" -> "neo_metadata.str"
      [] statement = "neo_metadata.str" -> "kernelId"
      [] statement = "kernelId" -> "deduceKernelParameters"
      [] statement = "deduceKernelParameters" -> "constructed"

\* The statement that follows a statement in the constructor of the class.
NextStatement(statement, variant) ==
    CASE statement = "max-shaves" -> "loadKernelBinary"
      [] statement = "loadKernelBinary" -> "processParametersNode"
      [] statement = "processParametersNode" -> "processWorkSizesNode"
      [] statement = "processWorkSizesNode" -> "inputDataCount"
      [] statement = "inputDataCount" /\ variant = "Cpp" -> "parameters"
      [] statement = "inputDataCount" /\ variant # "Cpp" -> "entry"
      [] statement = "parameters" -> "constructed"
      [] statement = "entry" -> "neo_metadata"
      [] statement = "neo_metadata" -> "neo_metadata.str"
      [] statement = "neo_metadata.str" -> "kernelId"
      [] statement = "kernelId" -> "deduceKernelParameters"
      [] statement = "deduceKernelParameters" -> "constructed"

\* What a statement of a constructor does to its frame; env holds what the
\* undefined reads and the reservation do.
Statement(statement, frame, node, fileSystem, env) ==
    CASE statement = "max-shaves" -> ReadMaxShaves(frame, node)
      [] statement = "loadKernelBinary" -> LoadKernelBinary(frame, node, fileSystem)
      [] statement = "processParametersNode" ->
             ProcessParametersNode(frame, node, env.undef)
      [] statement = "processWorkSizesNode" -> ProcessWorkSizesNode(frame, node)
      [] statement = "inputDataCount" -> CountInputData(frame, node)
      [] statement = "parameters" -> CollectParameters(frame)
      [] statement = "entry" -> ReadEntry(frame, node)
      [] statement = "neo_metadata" -> FindNeoMetadata(frame, env.ub1)
      [] statement = "neo_metadata.str" -> FindNeoMetadataStr(frame, env.ub2)
      [] statement = "kernelId" -> ResolveKernel(frame)
      [] statement = "deduceKernelParameters" -> DeduceParameters(frame, env.reserved)

RECURSIVE RunFrom(_, _, _, _, _)

\* The statements of a constructor from the given one on, up to the first
\* that throws.
RunFrom(statement, frame, node, fileSystem, env) ==
    IF statement = "constructed" THEN Return(frame)
    ELSE LET outcome == Statement(statement, frame, node, fileSystem, env)
         IN  IF outcome.status # "Ok" THEN outcome
             ELSE RunFrom(NextStatement(statement, node.variant), outcome.value,
                          node, fileSystem, env)

\* What the caller gets from a constructor that ended with the outcome.
Constructed(outcome) ==
    IF outcome.status = "Ok" THEN Return(outcome.value.this)
    ELSE Fail(NoFrame, outcome)

\* CustomCppKernel::CustomCppKernel(node, configDir)
CustomCppKernel_ctor(node, fileSystem, undef) ==
    Constructed(RunFrom("max-shaves", NewFrame("Cpp"), node, fileSystem,
                        [undef |-> undef]))

\* CustomClKernel::CustomClKernel(node, configDir)
CustomClKernel_ctor(node, fileSystem, env) ==
    Constructed(RunFrom("max-shaves", NewFrame("CL"), node, fileSystem, env))

----------------------------------------------------------------------------
(* Explored kernel binaries.                                               *)

Arg(name, flags) == [name |-> name, flags |-> flags, decodable |-> TRUE]

\* An argument record that get_argument cannot decode.
BadArg == [name |-> <<>>, flags |-> {}, decodable |-> FALSE]

\* The trailing argument every kernel reports beyond its own.
LastArg == Arg(<<"_">>, {})

Kernel(name, args) == [name |-> name, arg_count |-> Len(args), args |-> args]

EntryK == <<"k">>

KernelAB == Kernel(EntryK, <<Arg(<<"A">>, {}), Arg(<<"B">>, {}), LastArg>>)

\* Arguments the compiler generated stand between and after the declared
\* ones; the metadata order differs from that of any <Parameters> block.
KernelHoisted ==
    Kernel(EntryK, <<Arg(<<"B">>, {"other"}), Arg(<<"g">>, {"generated_prepost"}),
                     Arg(<<"A">>, {}), Arg(<<"h">>, {"generated_prepost", "other"}),
                     LastArg>>)

\* The last argument is left out even when it is flagged or a declared one.
KernelNoSentinel ==
    Kernel(EntryK, <<Arg(<<"A">>, {}), Arg(<<"B">>, {})>>)

KernelNoArgs == Kernel(EntryK, <<>>)

KernelOnlyLast == Kernel(EntryK, <<LastArg>>)

KernelBadArg == Kernel(EntryK, <<Arg(<<"A">>, {}), BadArg, LastArg>>)

KernelOther == Kernel(<<"o">>, <<Arg(<<"C">>, {}), LastArg>>)

KernelTables ==
    { <<>>, <<KernelAB>>, <<KernelHoisted>>, <<KernelNoSentinel>>, <<KernelNoArgs>>,
      <<KernelOnlyLast>>, <<KernelBadArg>>, <<KernelOther>>,
      <<KernelAB, KernelOther>>, <<KernelOther, KernelAB>>,
      <<KernelOther, KernelOther>>, <<KernelAB, KernelAB, KernelOther>> }

ShStrTabName == <<".","s","h","s","t","r","t","a","b">>

\* Offset of the i-th name in a string table that holds the names one after
\* the other, each with its NUL.
RECURSIVE NameOffset(_, _)
NameOffset(names, i) ==
    IF i <= 1 THEN 0 ELSE NameOffset(names, i - 1) + Len(names[i - 1]) + 1

\* A well-formed binary: the ELF header, one section header per name (the
\* first section is the string table), the names, then the metadata.
Elf(names, kernels) ==
    [len |-> Elf32Ehdr.sizeof + Len(names) * Elf32Shdr.sizeof
                 + NameOffset(names, Len(names) + 1) + 16,
     ePhoff |-> Elf32Ehdr.sizeof,
     eShoff |-> Elf32Ehdr.sizeof,
     eShnum |-> Len(names),
     eShstrndx |-> 0,
     shdrs |-> {[at |-> Elf32Ehdr.sizeof + (i - 1) * Elf32Shdr.sizeof,
                 shName |-> NameOffset(names, i),
                 shOffset |->
                     IF i = 1 THEN Elf32Ehdr.sizeof + Len(names) * Elf32Shdr.sizeof
                     ELSE Elf32Ehdr.sizeof + Len(names) * Elf32Shdr.sizeof
                              + NameOffset(names, Len(names) + 1)
                              + (IF names[i] = NeoMetadataName THEN 0 ELSE 8),
                 shSize |-> IF i = 1 THEN NameOffset(names, Len(names) + 1) ELSE 8]
                : i \in 1..Len(names)},
     strs |-> {[at |-> Elf32Ehdr.sizeof + Len(names) * Elf32Shdr.sizeof
                           + NameOffset(names, i),
                text |-> names[i]] : i \in 1..Len(names)},
     meta |-> {[at |-> Elf32Ehdr.sizeof + Len(names) * Elf32Shdr.sizeof
                           + NameOffset(names, Len(names) + 1),
                size |-> 8 + 8,
                kernels |-> kernels]}]

FullNames == <<ShStrTabName, NeoMetadataName, NeoMetadataStrName>>

SectionNameLists ==
    { <<ShStrTabName, NeoMetadataStrName>>,
      <<ShStrTabName, NeoMetadataName>>,
      <<ShStrTabName>>,
      <<ShStrTabName, NeoMetadataName \o <<"X">>, NeoMetadataStrName>>,
      <<ShStrTabName, NeoMetadataName, NeoMetadataStrName \o <<"2">>>>,
      <<ShStrTabName, <<".","N","E","O","_","m","e","t","a","d","a","t","a">>,
        NeoMetadataStrName>>,
      <<ShStrTabName, NeoMetadataStrName, <<".","t","e","x","t">>, NeoMetadataName>> }

GoodElf == Elf(FullNames, <<KernelAB>>)

WellFormedElfs ==
    {Elf(FullNames, ks) : ks \in KernelTables}
        \cup {Elf(names, <<KernelAB>>) : names \in SectionNameLists}

\* Binaries whose header lacks a table offset, and binaries cut short or
\* pointing outside themselves.
BrokenElfs ==
    { [GoodElf EXCEPT !.eShoff = 0],
      [GoodElf EXCEPT !.ePhoff = 0],
      [GoodElf EXCEPT !.eShnum = 0],
      EmptyBinary,
      [Elf(<<ShStrTabName, NeoMetadataStrName>>, <<KernelAB>>)
          EXCEPT !.len = Elf32Ehdr.sizeof + Elf32Shdr.sizeof + 8],
      [Elf(<<ShStrTabName>>, <<KernelAB>>) EXCEPT !.eShnum = 3],
      [GoodElf EXCEPT !.eShstrndx = 9],
      [GoodElf EXCEPT !.len = GoodElf.len - 12],
      \* zero bytes up to the middle of the header
      [EmptyBinary EXCEPT !.len = 40],
      [EmptyBinary EXCEPT !.len = 36, !.eShoff = Elf32Ehdr.sizeof],
      \* the second section header is the bytes of the string table
      [Elf(<<ShStrTabName>>, <<KernelAB>>) EXCEPT !.eShnum = 2],
      \* the section header table is the bytes of the metadata
      [GoodElf EXCEPT !.eShoff = GoodElf.len - 20] }

KernelBinaries == WellFormedElfs \cup BrokenElfs

----------------------------------------------------------------------------
(* Explored kernel descriptors and file systems.                           *)

ConfigDir == <<"c">>

Source(filename) == [filename |-> filename]

FileK == <<"k",".","b","i","n">>
FileK2 == <<"k","2",".","b","i","n">>
FileMissing == <<"m","i","s","s","i","n","g",".","c","l">>

\* What FileK2 holds: a binary of another kernel.
OtherElf == Elf(FullNames, <<KernelOther>>)

\* The files under ConfigDir: FileK with the given contents and FileK2;
\* the directory itself opens as an empty file when dirOpens.
FileSystem(binary, dirOpens) ==
    { [path |-> ConfigDir \o <<"/">> \o FileK, contents |-> binary],
      [path |-> ConfigDir \o <<"/">> \o FileK2, contents |-> OtherElf] }
        \cup (IF dirOpens THEN {[path |-> ConfigDir \o <<"/">>, contents |-> EmptyBinary]}
              ELSE {})

SourceLists ==
    { <<>>,
      <<Source(Attr(FileK))>>,
      <<Source(Attr(FileMissing))>>,
      <<Source(Attr(FileMissing)), Source(Attr(FileK))>>,
      <<Source(Attr(FileK)), Source(Attr(FileMissing))>>,
      <<Source(Attr(FileK2)), Source(Attr(FileK))>>,
      <<Source(NoAttr), Source(Attr(FileK))>> }

WorkSizes(dim, global, local) == [dim |-> dim, global |-> global, local |-> local]

GlobalBHW == <<"B",",","H",",","W">>
Local111 == <<"1",",","1",",","1">>

WorkSizesA == WorkSizes(Attr(DimInput0), Attr(GlobalBHW), Attr(Local111))

WorkSizesPool ==
    { WorkSizesA,
      WorkSizes(Attr(<<"O","u","t","p","u","t">>), Attr(<<"X">>), Attr(<<"1",",","2">>)),
      WorkSizes(Attr(DimOutput1), Attr(<<"X","*","F",",","2">>), Attr(<<>>)),
      WorkSizes(Attr(<<"b","o","g","u","s">>), Attr(GlobalBHW), Attr(Local111)),
      WorkSizes(NoAttr, Attr(GlobalBHW), Attr(Local111)),
      WorkSizes(Attr(DimInput0), NoAttr, Attr(Local111)),
      WorkSizes(Attr(DimInput0), Attr(GlobalBHW), NoAttr),
      WorkSizes(Attr(DimInput0), NoAttr, NoAttr) }

TensorIn == Node("Tensor", TypeInput, IntAttr(0), NoAttr, NoAttr, NoAttr, NoAttr)
TensorOut == Node("Tensor", TypeOutput, IntAttr(0), NoAttr, NoAttr, NoAttr, NoAttr)
TensorInBuf ==
    Node("Tensor", TypeInputBuffer, IntAttr(0), NoAttr, Attr(<<"X",",","2">>),
         Attr(DimOutput1), NoAttr)
TensorEmptySize ==
    Node("Tensor", TypeInputBuffer, IntAttr(0), NoAttr, Attr(<<>>), Attr(TypeInput), NoAttr)
DataSource == Node("Data", TypeData, NoIntAttr, NoAttr, NoAttr, NoAttr, Attr(<<"s">>))
DataNeither == Node("Data", TypeData, NoIntAttr, NoAttr, NoAttr, NoAttr, NoAttr)
LocalData == Node("Data", TypeLocalData, NoIntAttr, NoAttr, Attr(Text64), NoAttr, Attr(<<"s">>))
ScalarInt == Node("Scalar", TypeInt, NoIntAttr, NoAttr, NoAttr, NoAttr, NoAttr)

\* The <Parameters> block of scenario A: an input and an output tensor.
ParametersA == Named(<<TensorIn, TensorOut>>)

\* An input buffer and an output tensor.
ParametersB == Named(<<TensorInBuf, TensorOut>>)

KernelParameterBlocks ==
    { <<>>,
      ParametersA,
      Named(<<ScalarInt, DataSource, TensorInBuf, TensorIn, TensorOut>>),
      Named(<<TensorOut, LocalData, ScalarInt>>),
      Named(<<DataSource, TensorIn, DataNeither, TensorOut>>),
      Named(<<TensorIn, TensorEmptySize, DataSource>>) }

\* A kernel node of the custom layer description, to be parsed as a
\* CustomCppKernel ("Cpp") or as a CustomClKernel ("CL").
KernelNode(variant, maxShaves, entry, sources, params, workSizes) ==
    [variant |-> variant, configDir |-> ConfigDir, maxShaves |-> maxShaves,
     entry |-> entry, sources |-> sources, parameters |-> params,
     workSizes |-> workSizes]

\* The Source children with the parameters and work sizes of scenario A,
\* and the parameters and work sizes with its Source child.
XmlVariations ==
    [sources : SourceLists, params : {ParametersA}, workSizes : {WorkSizesA},
     dirOpens : BOOLEAN]
        \cup [sources : {<<Source(Attr(FileK))>>}, params : KernelParameterBlocks,
              workSizes : WorkSizesPool, dirOpens : {FALSE}]

\* Nodes that vary the XML around the binary of scenario A.
XmlCases ==
    { [node |-> KernelNode(variant, maxShaves, Attr(EntryK), xml.sources, xml.params,
                           xml.workSizes),
       fileSystem |-> FileSystem(GoodElf, xml.dirOpens)] :
        variant \in {"Cpp", "CL"}, maxShaves \in {NoIntAttr, IntAttr(4)},
        xml \in XmlVariations }

\* Nodes that vary the binary and the entry name.
BinaryCases ==
    { [node |-> KernelNode(variant, NoIntAttr, entry, <<Source(Attr(FileK))>>,
                           params, WorkSizesA),
       fileSystem |-> FileSystem(binary, FALSE)] :
        variant \in {"Cpp", "CL"}, entry \in {Attr(EntryK), Attr(<<"K">>), NoAttr},
        params \in {ParametersA, Named(<<ScalarInt, DataSource, TensorInBuf>>)},
        binary \in KernelBinaries }

\* Nodes with more than one thing wrong: a file that cannot be opened, a
\* Data without source and dim, a dim that names no source, no entry, a
\* binary without .neo_metadata.
OrderCases ==
    { [node |-> KernelNode(variant, NoIntAttr, entry, <<Source(Attr(file))>>,
                           params, workSizes),
       fileSystem |-> FileSystem(binary, FALSE)] :
        variant \in {"Cpp", "CL"}, entry \in {Attr(EntryK), NoAttr},
        file \in {FileK, FileMissing},
        params \in {ParametersA, Named(<<DataSource, TensorIn, DataNeither, TensorOut>>)},
        workSizes \in {WorkSizesA,
                       WorkSizes(Attr(<<"b","o","g","u","s">>), Attr(GlobalBHW),
                                 Attr(Local111))},
        binary \in {GoodElf, Elf(<<ShStrTabName, NeoMetadataStrName>>, <<KernelAB>>)} }

ConstructionCases == XmlCases \cup BinaryCases \cup OrderCases

\* The nodes that are parsed side by side.
ConcurrentNodes ==
    { KernelNode("Cpp", IntAttr(4), NoAttr, <<Source(Attr(FileK))>>, ParametersA,
                 WorkSizesA),
      KernelNode("CL", NoIntAttr, Attr(EntryK), <<Source(Attr(FileK))>>, ParametersB,
                 WorkSizesA),
      KernelNode("CL", NoIntAttr, Attr(<<"o">>), <<Source(Attr(FileK2))>>,
                 Named(<<ScalarInt, TensorInBuf, TensorInBuf>>),
                 WorkSizes(Attr(DimOutput1), Attr(<<"X">>), Attr(<<"1",",","2">>))),
      KernelNode("Cpp", NoIntAttr, NoAttr, <<Source(Attr(FileK2))>>,
                 Named(<<TensorEmptySize, DataSource>>), WorkSizesA),
      KernelNode("CL", NoIntAttr, Attr(EntryK), <<Source(Attr(FileK))>>,
                 Named(<<TensorOut, DataNeither>>), WorkSizesA),
      KernelNode("CL", NoIntAttr, Attr(EntryK), <<Source(Attr(FileMissing))>>,
                 ParametersA, WorkSizesA) }

\* The nodes among them that are constructed from the file FileK.
FileKNodes ==
    {n \in ConcurrentNodes :
        /\ n.sources = <<Source(Attr(FileK))>>
        /\ n.parameters \in {ParametersA, ParametersB}}

\* The files they are constructed from: the binary of scenario A, whole or
\* cut short.
ConcurrentFileSystems ==
    {FileSystem(GoodElf, FALSE),
     FileSystem([GoodElf EXCEPT !.len = GoodElf.len - 12], FALSE)}

\* What a read outside the payload can yield for a section lookup and for
\* the kernel table.
FarShdr == [shOffset |-> 2^20, shSize |-> 2^20]

OutOfBoundsOutcomes ==
    {[crash |-> TRUE, section |-> NoSection, kernels |-> <<>>]}
        \cup {[crash |-> FALSE, section |-> s, kernels |-> ks] :
                 s \in {NoSection, AssertionFailed, Return(ZeroShdr), Return(FarShdr)},
                 ks \in {<<>>, <<KernelAB>>}}

----------------------------------------------------------------------------
(* Construction of kernels, one statement of a constructor at a time, and  *)
(* accept on the kernels constructed.                                      *)

MaxAccepts == 2

NoTextCall ==
    /\ dims = <<>> /\ dimSourceResult = NotCalled
    /\ str = NoAttr /\ formatResult = NotCalled
    /\ size = <<>> /\ sizeRuleResult = NotCalled
    /\ parameters = <<>> /\ paramsResult = NotCalled

\* One kernel is constructed.
InitConstruct ==
    /\ NoTextCall
    /\ \E c \in ConstructionCases :
          /\ kernelNode = [k \in Kernels |-> IF k = 1 THEN c.node ELSE NoNode]
          /\ files = c.fileSystem
          /\ pc = [k \in Kernels |-> IF k = 1 THEN "max-shaves" ELSE "unused"]
          /\ ctor = [k \in Kernels |->
                         IF k = 1 THEN NewFrame(c.node.variant) ELSE NoFrame]
    /\ result = [k \in Kernels |-> NotCalled]
    /\ visits = <<>>
    /\ accepted = [k \in Kernels |-> 0]
    /\ NoDevice

\* Two kernels are constructed by two threads.
InitConcurrent ==
    /\ NoTextCall
    /\ files \in ConcurrentFileSystems
    /\ kernelNode \in [Kernels -> IF files = FileSystem(GoodElf, FALSE)
                                   THEN ConcurrentNodes ELSE FileKNodes]
    /\ pc = [k \in Kernels |-> "max-shaves"]
    /\ ctor = [k \in Kernels |-> NewFrame(kernelNode[k].variant)]
    /\ result = [k \in Kernels |-> NotCalled]
    /\ visits = <<>>
    /\ accepted = [k \in Kernels |-> 0]
    /\ NoDevice

\* Mutant: _kernelParams is a static member, one for all kernels.
StoreFrame_StaticKernelParams(frames, k, value) ==
    [j \in DOMAIN frames |->
        IF j = k THEN value
        ELSE IF frames[j].this # NoObject
        THEN [frames[j] EXCEPT !.this._kernelParams = value.this._kernelParams]
        ELSE frames[j]]

\* The members are non-static: a statement of the constructor of kernel k
\* writes the object and the locals of k only.
StoreFrame(frames, k, value) == [frames EXCEPT ![k] = value]

\* The constructor of kernel k is at a statement: it has neither returned
\* nor thrown, and the process has not been ended.
Running(k) ==
    /\ pc[k] # "unused"
    /\ result[k].status = "NotCalled"
    /\ \A j \in Kernels : result[j].status # "Crash"

\* The statement is done (go on at next, return to the caller from the
\* last one), or it has thrown or ended the process: pc stays at the
\* statement, the object is gone and the caller has the error.
Proceed(k, outcome, next) ==
    IF outcome.status = "Ok"
    THEN /\ ctor' = StoreFrame(ctor, k, outcome.value)
         /\ pc' = [pc EXCEPT ![k] = next]
         /\ result' = IF next = "constructed"
                      THEN [result EXCEPT ![k] = Return(outcome.value.this)]
                      ELSE result
    ELSE /\ ctor' = [ctor EXCEPT ![k].this = NoObject]
         /\ pc' = pc
         /\ result' = [result EXCEPT ![k] = Fail(ctor[k], outcome)]

textVars == <<dims, dimSourceResult, str, formatResult, size, sizeRuleResult,
              parameters, paramsResult>>

CtorReadMaxShaves(k) ==
    /\ pc[k] = "max-shaves"
    /\ Running(k)
    /\ Proceed(k, ReadMaxShaves(ctor[k], kernelNode[k]),
                   NextStatement(pc[k], kernelNode[k].variant))
    /\ UNCHANGED <<textVars, kernelNode, files, visits, accepted>>
    /\ UNCHANGED <<lane, xlinkVars>>

CtorLoadKernelBinary(k) ==
    /\ pc[k] = "loadKernelBinary"
    /\ Running(k)
    /\ Proceed(k, LoadKernelBinary(ctor[k], kernelNode[k], files),
                   NextStatement(pc[k], kernelNode[k].variant))
    /\ UNCHANGED <<textVars, kernelNode, files, visits, accepted>>
    /\ UNCHANGED <<lane, xlinkVars>>

CtorProcessParametersNode(k) ==
    /\ pc[k] = "processParametersNode"
    /\ Running(k)
    /\ \E undef \in UndefinedOutcomes(kernelNode[k].parameters) :
           Proceed(k, ProcessParametersNode(ctor[k], kernelNode[k], undef),
                   NextStatement(pc[k], kernelNode[k].variant))
    /\ UNCHANGED <<textVars, kernelNode, files, visits, accepted>>
    /\ UNCHANGED <<lane, xlinkVars>>

CtorProcessWorkSizesNode(k) ==
    /\ pc[k] = "processWorkSizesNode"
    /\ Running(k)
    /\ Proceed(k, ProcessWorkSizesNode(ctor[k], kernelNode[k]),
                   NextStatement(pc[k], kernelNode[k].variant))
    /\ UNCHANGED <<textVars, kernelNode, files, visits, accepted>>
    /\ UNCHANGED <<lane, xlinkVars>>

CtorCountInputData(k) ==
    /\ pc[k] = "inputDataCount"
    /\ Running(k)
    /\ Proceed(k, CountInputData(ctor[k], kernelNode[k]),
                   NextStatement(pc[k], kernelNode[k].variant))
    /\ UNCHANGED <<textVars, kernelNode, files, visits, accepted>>
    /\ UNCHANGED <<lane, xlinkVars>>

\* The end of the CustomCppKernel constructor.
CtorCollectParameters(k) ==
    /\ pc[k] = "parameters"
    /\ Running(k)
    /\ Proceed(k, CollectParameters(ctor[k]),
                   NextStatement(pc[k], kernelNode[k].variant))
    /\ UNCHANGED <<textVars, kernelNode, files, visits, accepted>>
    /\ UNCHANGED <<lane, xlinkVars>>

CtorReadEntry(k) ==
    /\ pc[k] = "entry"
    /\ Running(k)
    /\ Proceed(k, ReadEntry(ctor[k], kernelNode[k]),
                   NextStatement(pc[k], kernelNode[k].variant))
    /\ UNCHANGED <<textVars, kernelNode, files, visits, accepted>>
    /\ UNCHANGED <<lane, xlinkVars>>

CtorFindNeoMetadata(k) ==
    /\ pc[k] = "neo_metadata"
    /\ Running(k)
    /\ \E ub \in OutOfBoundsOutcomes :
           Proceed(k, FindNeoMetadata(ctor[k], ub),
                   NextStatement(pc[k], kernelNode[k].variant))
    /\ UNCHANGED <<textVars, kernelNode, files, visits, accepted>>
    /\ UNCHANGED <<lane, xlinkVars>>

CtorFindNeoMetadataStr(k) ==
    /\ pc[k] = "neo_metadata.str"
    /\ Running(k)
    /\ \E ub \in OutOfBoundsOutcomes :
           Proceed(k, FindNeoMetadataStr(ctor[k], ub),
                   NextStatement(pc[k], kernelNode[k].variant))
    /\ UNCHANGED <<textVars, kernelNode, files, visits, accepted>>
    /\ UNCHANGED <<lane, xlinkVars>>

CtorResolveKernel(k) ==
    /\ pc[k] = "kernelId"
    /\ Running(k)
    /\ Proceed(k, ResolveKernel(ctor[k]),
                   NextStatement(pc[k], kernelNode[k].variant))
    /\ UNCHANGED <<textVars, kernelNode, files, visits, accepted>>
    /\ UNCHANGED <<lane, xlinkVars>>

\* The end of the CustomClKernel constructor.
CtorDeduceParameters(k) ==
    /\ pc[k] = "deduceKernelParameters"
    /\ Running(k)
    /\ \E reserved \in BOOLEAN :
           Proceed(k, DeduceParameters(ctor[k], reserved),
                   NextStatement(pc[k], kernelNode[k].variant))
    /\ UNCHANGED <<textVars, kernelNode, files, visits, accepted>>
    /\ UNCHANGED <<lane, xlinkVars>>

\* Mutant: visitCpp and then visitCL.
CustomCppKernel_accept_Both(k) ==
    <<[method |-> "visitCpp", kernel |-> k], [method |-> "visitCL", kernel |-> k]>>

\* void CustomCppKernel::accept(validator) const: the calls it makes on the
\* visitor.
CustomCppKernel_accept(k) == <<[method |-> "visitCpp", kernel |-> k]>>

\* void CustomClKernel::accept(validator) const
CustomClKernel_accept(k) == <<[method |-> "visitCL", kernel |-> k]>>

\* kernel->accept(validator) on a constructed kernel; visits are the calls
\* the visitor has received.
Accept(k) ==
    /\ \A j \in Kernels : result[j].status # "Crash"
    /\ pc[k] = "constructed"
    /\ accepted[k] < MaxAccepts
    /\ accepted' = [accepted EXCEPT ![k] = @ + 1]
    /\ visits' = visits \o (IF kernelNode[k].variant = "Cpp"
                            THEN CustomCppKernel_accept(k)
                            ELSE CustomClKernel_accept(k))
    /\ UNCHANGED <<textVars, kernelNode, files, pc, ctor, result>>
    /\ UNCHANGED <<lane, xlinkVars>>

NextConstruct ==
    \E k \in Kernels :
        \/ CtorReadMaxShaves(k)
        \/ CtorLoadKernelBinary(k)
        \/ CtorProcessParametersNode(k)
        \/ CtorProcessWorkSizesNode(k)
        \/ CtorCountInputData(k)
        \/ CtorCollectParameters(k)
        \/ CtorReadEntry(k)
        \/ CtorFindNeoMetadata(k)
        \/ CtorFindNeoMetadataStr(k)
        \/ CtorResolveKernel(k)
        \/ CtorDeduceParameters(k)
        \/ Accept(k)

SpecConstruct == InitConstruct /\ [][NextConstruct]_vars

SpecConcurrent == InitConcurrent /\ [][NextConstruct]_vars

----------------------------------------------------------------------------
(* A constructor run alone.                                                *)

\* What the undefined reads and the reservation do in one constructor on the
\* parameter nodes: undef in processParametersNode, ub1 and ub2 in the
\* two section lookups, reserved in deduceKernelParameters.  This is one
\* such environment, for the statements that read none of it.
AnyEnvironment(nodes) ==
    [undef |-> [i \in 1..Len(nodes) |-> CHOOSE undef \in ElementUndefs : TRUE],
     ub1 |-> CHOOSE ub \in OutOfBoundsOutcomes : TRUE,
     ub2 |-> CHOOSE ub \in OutOfBoundsOutcomes : TRUE,
     reserved |-> FALSE]

\* The environments that differ in what the statement reads of them.
StatementEnvironments(statement, nodes) ==
    CASE statement = "processParametersNode" ->
             {[AnyEnvironment(nodes) EXCEPT !.undef = undef] : undef \in UndefinedOutcomes(nodes)}
      [] statement = "neo_metadata" ->
             {[AnyEnvironment(nodes) EXCEPT !.ub1 = ub] : ub \in OutOfBoundsOutcomes}
      [] statement = "neo_metadata.str" ->
             {[AnyEnvironment(nodes) EXCEPT !.ub2 = ub] : ub \in OutOfBoundsOutcomes}
      [] statement = "deduceKernelParameters" ->
             {[AnyEnvironment(nodes) EXCEPT !.reserved = reserved] : reserved \in BOOLEAN}
      [] OTHER -> {AnyEnvironment(nodes)}

RECURSIVE Outcomes(_, _, _, _)

\* What the constructor, running alone from the statement on with the
\* frame, can give its caller.
Outcomes(statement, frame, node, fileSystem) ==
    IF statement = "constructed" THEN {Constructed(Return(frame))}
    ELSE UNION {IF done.status # "Ok" THEN {Constructed(done)}
                ELSE Outcomes(NextStatement(statement, node.variant), done.value,
                              node, fileSystem) :
                    done \in {Statement(statement, frame, node, fileSystem, env) :
                                 env \in StatementEnvironments(statement,
                                                               node.parameters)}}

\* What each of the nodes constructed together can give when it is
\* constructed alone.
AloneOutcomes ==
    UNION {{<<xml, fs, outcome>> :
               outcome \in Outcomes("max-shaves", NewFrame(xml.variant), xml, fs)} :
              xml \in ConcurrentNodes, fs \in ConcurrentFileSystems}

\* The caller can get the outcome from the constructor of the class of the
\* node when it runs alone.
ConstructsAlone(xml, fs, outcome) == <<xml, fs, outcome>> \in AloneOutcomes

----------------------------------------------------------------------------
(* Properties of the constructors.                                         *)

\* The constructor of kernel k has returned or thrown.
Ended(k) == result[k].status # "NotCalled"

\* The file named by the first Source child of the node of kernel k.
FirstSourcePath(k) ==
    kernelNode[k].configDir \o <<"/">>
        \o (IF kernelNode[k].sources[1].filename.present
            THEN kernelNode[k].sources[1].filename.value ELSE <<>>)

\* The contents of the files at the path.
ContentsAt(path) == {f.contents : f \in {g \in files : g.path = path}}

\* loadKernelBinary has run in the constructor of kernel k.
Loaded(k) ==
    /\ pc[k] # "unused"
    /\ pc[k] \notin {"max-shaves", "loadKernelBinary"} \/ Ended(k)

\* C11: loadKernelBinary gives the whole contents of the file
\* configDir + "/" + filename of the first Source child; it fails with
\* FileNotFound when that file cannot be opened, whatever Source children
\* follow, and with InvalidDescriptor when there is no Source child.
C11_FirstSourceDecides ==
    \A k \in Kernels :
        Loaded(k) =>
            IF kernelNode[k].sources = <<>>
            THEN /\ result[k].status = "InvalidDescriptor"
                 /\ result[k].msg = "Kernel binary not found"
                 /\ pc[k] = "loadKernelBinary"
            ELSE IF ContentsAt(FirstSourcePath(k)) = {}
            THEN /\ result[k].status = "FileNotFound"
                 /\ pc[k] = "loadKernelBinary"
            ELSE /\ pc[k] # "loadKernelBinary"
                 /\ ctor[k].this # NoObject =>
                        ContentsAt(FirstSourcePath(k)) = {ctor[k].this._kernelBinary}

\* The first Source names a file that cannot be opened, the second one a
\* file that can, and the constructor failed with FileNotFound.
C11_Witness ==
    /\ Len(kernelNode[1].sources) = 2
    /\ ContentsAt(FirstSourcePath(1)) = {}
    /\ kernelNode[1].sources[2].filename = Attr(FileK)
    /\ \E f \in files : f.path = ConfigDir \o <<"/">> \o FileK
    /\ result[1].status = "FileNotFound"

\* The number of parameters of an input kind, counted on the list itself.
InputKinds == {"Input", "InputBuffer", "Data"}

NumberOfInputKind(kernelParams) ==
    Cardinality({i \in DOMAIN kernelParams : kernelParams[i].type \in InputKinds})

\* C12: the inputDataCount of a constructed kernel of either class is the
\* number of its parameters of kind Input, InputBuffer or Data, at most the
\* length of the parameter list, and the two classes count alike.
C12_InputDataCount ==
    \A k \in Kernels :
        result[k].status = "Ok" =>
            /\ result[k].value._inputDataCount =
                   NumberOfInputKind(result[k].value._kernelParams)
            /\ result[k].value._inputDataCount <= Len(result[k].value._kernelParams)
            /\ CustomCppKernel_inputDataCount(result[k].value._kernelParams)
                   = CustomClKernel_inputDataCount(result[k].value._kernelParams)

\* A kernel with five parameters, three of them of an input kind (one each
\* of Input, InputBuffer and Data), constructed with inputDataCount 3.
C12_Witness ==
    /\ result[1].status = "Ok"
    /\ Len(result[1].value._kernelParams) = 5
    /\ {result[1].value._kernelParams[i].type : i \in 1..5}
           = {"Input", "InputBuffer", "Data", "Output", "Int"}
    /\ result[1].value._inputDataCount = 3

\* C13: the parameters() of a constructed CustomCppKernel are as many as its
\* bindings(), and the i-th is the argName of the i-th binding.
C13_NativeParametersAreArgNames ==
    \A k \in Kernels :
        (result[k].status = "Ok" /\ kernelNode[k].variant = "Cpp") =>
            /\ Len(result[k].value._parameters) = Len(result[k].value._kernelParams)
            /\ \A i \in 1..Len(result[k].value._kernelParams) :
                   result[k].value._parameters[i]
                       = result[k].value._kernelParams[i].argName

\* A CustomCppKernel constructed from a block that the three loops reorder:
\* its names are those of the tensors, then the data, then the scalar.
C13_Witness ==
    /\ result[1].status = "Ok"
    /\ kernelNode[1].variant = "Cpp"
    /\ result[1].value._parameters
           = << <<"a","3">>, <<"a","4">>, <<"a","5">>, <<"a","2">>, <<"a","1">> >>

\* The arguments of the kernel description that are not flagged as
\* generated, among those before the last one reported.
RECURSIVE DeclaredNames(_, _)
DeclaredNames(args, n) ==
    IF n <= 0 THEN <<>>
    ELSE IF "generated_prepost" \in args[n].flags THEN DeclaredNames(args, n - 1)
    ELSE Append(DeclaredNames(args, n - 1), args[n].name)

\* The kernel description the parser of kernel k holds for its _kernelId.
ResolvedKernel(k) == ctor[k].parser.kernels[result[k].value._kernelId + 1]

\* C14: the parameters() of a constructed CustomClKernel are the names of
\* the metadata arguments of its kernel at indices 0 .. arg_count - 2
\* without those flagged generated_prepost, in the order of the metadata.
C14_CompiledParametersFromMetadata ==
    \A k \in Kernels :
        (result[k].status = "Ok" /\ kernelNode[k].variant = "CL") =>
            /\ ResolvedKernel(k).arg_count >= 1
            /\ result[k].value._parameters
                   = DeclaredNames(ResolvedKernel(k).args, ResolvedKernel(k).arg_count - 1)

\* A CustomClKernel constructed from the binary whose kernel lists B, a
\* generated argument, A, another generated one and the last argument: its
\* names are B, A, while the Parameters block declares a1, a2.
C14_Witness ==
    /\ result[1].status = "Ok"
    /\ kernelNode[1].variant = "CL"
    /\ ctor[1].this._kernelBinary = Elf(FullNames, <<KernelHoisted>>)
    /\ kernelNode[1].parameters = ParametersA
    /\ result[1].value._parameters = << <<"B">>, <<"A">> >>

\* The binary that loadKernelBinary gives the constructor of kernel k.
LoadedBinary(k) == CHOOSE b \in ContentsAt(FirstSourcePath(k)) : TRUE

\* The section header table of the binary, as far as it lies in the
\* payload, has a section of that name in the payload.
HasSectionNamed(elf, name) ==
    /\ elf.len >= Elf32Ehdr.sizeof
    /\ \E i \in 0..(elf.eShnum - 1) :
           LET firstStr == ReadUInt(elf, elf.eShoff + elf.eShstrndx * Elf32Shdr.sizeof
                                             + Elf32Shdr.shOffset, 4)
               shName == ReadUInt(elf, elf.eShoff + i * Elf32Shdr.sizeof, 4)
           IN  /\ firstStr.status = "Ok"
               /\ shName.status = "Ok"
               /\ strcmp(elf, PtrAdd(firstStr.value, shName.value), name, 0)
                      = Return(TRUE)

\* The constructor of kernel k has looked up .neo_metadata.
LookedUpNeoMetadata(k) ==
    /\ kernelNode[k].variant = "CL"
    /\ \/ pc[k] \in {"neo_metadata.str", "kernelId", "deduceKernelParameters",
                     "constructed"}
       \/ pc[k] = "neo_metadata" /\ Ended(k)

\* The constructor of kernel k has looked up .neo_metadata.str.
LookedUpNeoMetadataStr(k) ==
    /\ kernelNode[k].variant = "CL"
    /\ \/ pc[k] \in {"kernelId", "deduceKernelParameters", "constructed"}
       \/ pc[k] = "neo_metadata.str" /\ Ended(k)

\* C15: the CustomClKernel constructor fails with MalformedBinary whenever
\* the section header table of the binary has no section named
\* .neo_metadata, and likewise for .neo_metadata.str; the parser is built
\* only when both were found.
C15_AbsentSectionFailsMalformedBinary ==
    \A k \in Kernels :
        /\ (LookedUpNeoMetadata(k) /\ ~HasSectionNamed(LoadedBinary(k), NeoMetadataName))
               => (pc[k] = "neo_metadata" /\ result[k].status = "MalformedBinary")
        /\ (LookedUpNeoMetadataStr(k)
                /\ ~HasSectionNamed(LoadedBinary(k), NeoMetadataStrName))
               => (pc[k] = "neo_metadata.str" /\ result[k].status = "MalformedBinary")

\* The constructor of kernel k has resolved the kernel id and checked the
\* kernel count on the parser it built.
ResolveRan(k) ==
    /\ kernelNode[k].variant = "CL"
    /\ \/ pc[k] \in {"deduceKernelParameters", "constructed"}
       \/ pc[k] = "kernelId" /\ Ended(k)

\* The parser of kernel k reports a kernel of the entry name.
EntryFound(k) ==
    \E i \in 1..Len(ctor[k].parser.kernels) :
        ctor[k].parser.kernels[i].name = kernelNode[k].entry.value

CountMessage(n) == "binary should contain only one kernel, but contains " \o ToString(n)

\* The constructor gets past the two checks only with exactly one kernel,
\* which has the entry name, and fails with BinaryMismatch when no kernel
\* has the entry name.
OneKernelOfEntryName(k) ==
    /\ pc[k] # "kernelId" =>
           /\ Len(ctor[k].parser.kernels) = 1
           /\ ctor[k].parser.kernels[1].name = kernelNode[k].entry.value
           /\ result[k].status = "Ok" => result[k].value._kernelId = 0
    /\ ~EntryFound(k) =>
           /\ pc[k] = "kernelId"
           /\ result[k].status = "BinaryMismatch"

\* C16 (as stated): the CustomClKernel constructor succeeds only if the
\* binary holds exactly one kernel and that kernel has the entry name; it
\* fails with BinaryMismatch when no kernel has the entry name, and with
\* BinaryMismatch reporting the kernel count whenever the count is not 1.
C16_CountReportedWheneverNotOne ==
    \A k \in Kernels :
        ResolveRan(k) =>
            /\ OneKernelOfEntryName(k)
            /\ Len(ctor[k].parser.kernels) # 1 =>
                   /\ pc[k] = "kernelId"
                   /\ result[k].status = "BinaryMismatch"
                   /\ result[k].msg = CountMessage(Len(ctor[k].parser.kernels))

\* C16 (amended): as above, but the kernel count is reported only when a
\* kernel of the entry name exists; without one the failure is the
\* BinaryMismatch of the name lookup, whatever the count.
C16_CountReportedWhenEntryFound ==
    \A k \in Kernels :
        ResolveRan(k) =>
            /\ OneKernelOfEntryName(k)
            /\ ~EntryFound(k) =>
                   result[k].msg = "Failed to find kernel with name"
            /\ (EntryFound(k) /\ Len(ctor[k].parser.kernels) # 1) =>
                   /\ pc[k] = "kernelId"
                   /\ result[k].status = "BinaryMismatch"
                   /\ result[k].msg = CountMessage(Len(ctor[k].parser.kernels))

\* The binary holds two kernels, the first of the entry name: the
\* constructor failed with BinaryMismatch reporting 2.
C16_Witness ==
    /\ ResolveRan(1)
    /\ LoadedBinary(1) = Elf(FullNames, <<KernelAB, KernelOther>>)
    /\ ctor[1].parser.kernels = <<KernelAB, KernelOther>>
    /\ kernelNode[1].entry = Attr(EntryK)
    /\ result[1].status = "BinaryMismatch"
    /\ result[1].msg = CountMessage(2)

\* C17: a constructor that fails at any statement gives its caller the
\* error and no object; the caller has an object only from a constructor
\* that ran to its end, and has nothing while the constructor runs.
C17_FailureLeavesNoObject ==
    \A k \in Kernels :
        /\ result[k].status = "Ok" =>
               /\ pc[k] = "constructed"
               /\ result[k].value = ctor[k].this
               /\ result[k].value._kernelBinary = LoadedBinary(k)
               /\ Len(result[k].value._kernelParams) = Len(kernelNode[k].parameters)
        /\ result[k].status \notin {"Ok", "NotCalled"} =>
               /\ pc[k] # "constructed"
               /\ result[k].value = <<>>
               /\ ctor[k].this = NoObject
        /\ result[k].status = "NotCalled" => pc[k] # "constructed"

\* The constructor failed at its last but one statement, after every member
\* but _parameters had been set: the caller has the error only.
C17_Witness ==
    /\ pc[1] = "kernelId"
    /\ result[1].status = "BinaryMismatch"
    /\ result[1].value = <<>>
    /\ ctor[1].this = NoObject
    /\ Len(kernelNode[1].parameters) = 2

\* processWorkSizesNode has returned in the CustomClKernel constructor of
\* kernel k, whose object exists.
WorkSizesParsed(k) ==
    /\ kernelNode[k].variant = "CL"
    /\ pc[k] \in {"inputDataCount", "entry", "neo_metadata", "neo_metadata.str",
                  "kernelId", "deduceKernelParameters", "constructed"}
    /\ ctor[k].this # NoObject

\* C18: CustomClKernel::processWorkSizesNode sets the work group dimension
\* from parseDimSource of dim and the grid size rules from parseSizeRule of
\* global and of local, each in the order of its attribute and of any
\* length: dim="input,0" global="B,H,W" local="1,1,1" give (Input, 0),
\* ["B","H","W"] and ["1","1","1"].
C18_CompiledWorkSizes ==
    \A k \in Kernels :
        /\ WorkSizesParsed(k) =>
               /\ <<ctor[k].this._wgDimSource, ctor[k].this._wgDimIdx>>
                      = parseDimSource(kernelNode[k].workSizes.dim.value).value
               /\ ctor[k].this._globalGridSizeRules
                      = parseSizeRule(kernelNode[k].workSizes.global.value)
               /\ ctor[k].this._localGridSizeRules
                      = parseSizeRule(kernelNode[k].workSizes.local.value)
               /\ NonEmptySegments(kernelNode[k].workSizes.global.value) =>
                      Join(ctor[k].this._globalGridSizeRules)
                          = kernelNode[k].workSizes.global.value
               /\ NonEmptySegments(kernelNode[k].workSizes.local.value) =>
                      Join(ctor[k].this._localGridSizeRules)
                          = kernelNode[k].workSizes.local.value
               /\ kernelNode[k].workSizes = WorkSizesA =>
                      /\ ctor[k].this._wgDimSource = "Input"
                      /\ ctor[k].this._wgDimIdx = 0
                      /\ ctor[k].this._globalGridSizeRules = << <<"B">>, <<"H">>, <<"W">> >>
                      /\ ctor[k].this._localGridSizeRules = << <<"1">>, <<"1">>, <<"1">> >>
        /\ (/\ kernelNode[k].variant = "CL"
            /\ pc[k] = "processWorkSizesNode"
            /\ Ended(k))
               => \/ ~kernelNode[k].workSizes.dim.present
                  \/ ~kernelNode[k].workSizes.global.present
                  \/ ~kernelNode[k].workSizes.local.present
                  \/ parseDimSource(kernelNode[k].workSizes.dim.value).status # "Ok"

\* A CustomClKernel whose global attribute has one rule and whose local
\* attribute has two: both lists are kept as they are.
C18_Witness ==
    /\ WorkSizesParsed(1)
    /\ kernelNode[1].workSizes.global = Attr(<<"X">>)
    /\ kernelNode[1].workSizes.local = Attr(<<"1",",","2">>)
    /\ ctor[1].this._wgDimSource = "Output"
    /\ ctor[1].this._wgDimIdx = -1
    /\ ctor[1].this._globalGridSizeRules = << <<"X">> >>
    /\ ctor[1].this._localGridSizeRules = << <<"1">>, <<"2">> >>

\* The visit that accept on kernel k makes on the visitor.
VisitOf(k) ==
    [method |-> IF kernelNode[k].variant = "Cpp" THEN "visitCpp" ELSE "visitCL",
     kernel |-> k]

\* C19: accept on a CustomCppKernel calls visitCpp of the visitor exactly
\* once and never visitCL, accept on a CustomClKernel calls visitCL exactly
\* once and never visitCpp, and accept changes no member of the kernel.
C19_AcceptDispatch ==
    [][\A k \in Kernels :
           accepted'[k] # accepted[k] =>
               /\ accepted'[k] = accepted[k] + 1
               /\ visits' = Append(visits, VisitOf(k))
               /\ ctor' = ctor
               /\ result' = result
               /\ kernelNode' = kernelNode]_vars

\* A CustomCppKernel and a CustomClKernel each accepted the visitor, which
\* received one visitCpp for the former and one visitCL for the latter.
C19_Witness ==
    /\ kernelNode[1].variant = "Cpp"
    /\ kernelNode[2].variant = "CL"
    /\ accepted = [k \in Kernels |-> 1]
    /\ visits = <<[method |-> "visitCL", kernel |-> 2],
                  [method |-> "visitCpp", kernel |-> 1]>>

\* C20: constructors share no state they write: however the statements of
\* two constructors interleave, each gives its caller what it can give
\* when it runs alone.
C20_InterleavingKeepsResults ==
    \A k \in Kernels :
        Ended(k) => ConstructsAlone(kernelNode[k], files, result[k])

\* Kernel 1 is constructed while the constructor of kernel 2, started
\* before that of kernel 1 had ended, is at its last statement; the two
\* have different parameter lists.
C20_Witness ==
    /\ result[1].status = "Ok"
    /\ pc[2] = "deduceKernelParameters"
    /\ ~Ended(2)
    /\ Len(result[1].value._kernelParams) = 2
    /\ Len(ctor[2].this._kernelParams) = 3


----------------------------------------------------------------------------
(* C21: validation of what the ELF walk reads                              *)

\* The walk for the section name on the binary of kernel k stays inside
\* the payload.
WalkInPayload(k, section_name) ==
    get_elf_section_with_name(LoadedBinary(k), section_name).status # "OutOfBounds"

\* C21: every offset, index and length the ELF walk takes from the binary
\* is validated against the length of the binary before it is used, a
\* violation failing with MalformedBinary: no lookup of a constructor reads
\* outside the payload, and none ends the process.
C21_WalkStaysInPayload ==
    \A k \in Kernels :
        /\ LookedUpNeoMetadata(k) =>
               /\ WalkInPayload(k, NeoMetadataName)
               /\ result[k].status # "Crash"
        /\ LookedUpNeoMetadataStr(k) =>
               /\ WalkInPayload(k, NeoMetadataStrName)
               /\ result[k].status # "Crash"


----------------------------------------------------------------------------
(* ShuffleChannel, the native kernel of shuffle_channels.cpp               *)

\* The largest channel count explored: two full rounds of the shaves and
\* a remainder.
MaxChannels == 34

ShuffleGroups == {1, 2}

ShuffleHeights == {1}

ShuffleWidths == {1, 9}

\* int chunk = C / NUM_SHAVES; if (shave_id == NUM_SHAVES - 1) chunk += C % NUM_SHAVES
ShuffleChunk(C, shave_id) ==
    IF shave_id = NUM_SHAVES - 1
    THEN (C \div NUM_SHAVES) + (C % NUM_SHAVES)
    ELSE C \div NUM_SHAVES

\* int start = shave_id * chunk
ShuffleStart(C, shave_id) == shave_id * ShuffleChunk(C, shave_id)

\* int end = start + chunk
ShuffleEnd(C, shave_id) == ShuffleStart(C, shave_id) + ShuffleChunk(C, shave_id)

\* ShuffleChannel(src_data, dst_data, C, H, W, G, shave_id) up to the loop
\* over its channels; copied are the planes it has copied so far.
ShuffleChannel(C, H, W, G, shave_id) ==
    [pc |-> "loop", C |-> C, H |-> H, W |-> W, G |-> G, shave_id |-> shave_id,
     chunk |-> ShuffleChunk(C, shave_id),
     start |-> ShuffleStart(C, shave_id),
     end |-> ShuffleEnd(C, shave_id),
     c |-> ShuffleStart(C, shave_id),
     copied |-> <<>>]

\* The body of the loop for channel c: the plane at src_data + cy*CX*H*W +
\* cx*H*W goes to dst_data + cx*CY*H*W + cy*H*W, W*H/8 vectors of eight
\* elements and then the elements left.
ShufflePlane(frame) ==
    [c |-> frame.c,
     src |-> (frame.c % frame.G) * (frame.C \div frame.G) * frame.H * frame.W
                 + (frame.c \div frame.G) * frame.H * frame.W,
     dst |-> (frame.c \div frame.G) * frame.G * frame.H * frame.W
                 + (frame.c % frame.G) * frame.H * frame.W,
     vectors |-> (frame.W * frame.H) \div 8,
     scalars |-> frame.W * frame.H - ((frame.W * frame.H) \div 8) * 8]

\* for (int c = start; c < end; c++): one test of the condition, and the
\* body and the increment when it holds.  src_data and dst_data hold C*H*W
\* elements: a plane that reaches past them is read and written outside
\* the buffers (undefined behaviour), which copies what lies there or, when
\* fault, ends the kernel at the first such access.
ShuffleLoop(frame, fault) ==
    IF frame.c >= frame.end THEN [frame EXCEPT !.pc = "returned"]
    ELSE IF /\ fault
            /\ \/ ShufflePlane(frame).src + frame.H * frame.W
                       > frame.C * frame.H * frame.W
               \/ ShufflePlane(frame).dst + frame.H * frame.W
                       > frame.C * frame.H * frame.W
    THEN [frame EXCEPT !.pc = "fault"]
    ELSE [frame EXCEPT !.copied = Append(@, ShufflePlane(frame)), !.c = @ + 1]

\* custom_cpp(params, shave_id) calls ShuffleChannel on a shave.
CallShuffleChannel ==
    /\ lane.pc = "idle"
    /\ \E C \in 0..MaxChannels, H \in ShuffleHeights, W \in ShuffleWidths,
          G \in ShuffleGroups, shave_id \in 0..(NUM_SHAVES - 1) :
           lane' = ShuffleChannel(C, H, W, G, shave_id)
    /\ UNCHANGED <<textVars, kernelNode, files, pc, ctor, result, visits, accepted,
                   xlinkVars>>

\* The shave runs one iteration of the loop, or leaves it and returns.
StepShuffleChannel ==
    /\ lane.pc = "loop"
    /\ \E fault \in BOOLEAN : lane' = ShuffleLoop(lane, fault)
    /\ UNCHANGED <<textVars, kernelNode, files, pc, ctor, result, visits, accepted,
                   xlinkVars>>

InitShuffle ==
    /\ NoTextCall
    /\ NoConstruction
    /\ NoDevice

NextShuffle ==
    \/ CallShuffleChannel
    \/ StepShuffleChannel

SpecShuffle == InitShuffle /\ [][NextShuffle]_vars

\* The shaves whose range [start, end) holds the channel.
ShavesOfChannel(C, channel) ==
    {id \in 0..(NUM_SHAVES - 1) :
        ShuffleStart(C, id) <= channel /\ channel < ShuffleEnd(C, id)}

\* C22: for every channel count C >= 0 the ranges [start, end) of the
\* shaves 0 .. NUM_SHAVES-1 are pairwise disjoint and cover exactly [0, C):
\* every channel is in the range of exactly one shave, no range reaches past
\* C, and a shave never copies a channel of index C or more.
C22_ShavesPartitionChannels ==
    lane.pc # "idle" =>
        /\ \A channel \in 0..(lane.C - 1) :
               Cardinality(ShavesOfChannel(lane.C, channel)) = 1
        /\ \A id \in 0..(NUM_SHAVES - 1) :
               ShuffleStart(lane.C, id) < ShuffleEnd(lane.C, id) =>
                   ShuffleEnd(lane.C, id) <= lane.C
        /\ \A i \in 1..Len(lane.copied) : lane.copied[i].c < lane.C


----------------------------------------------------------------------------
(* C23: the type tokens of the three kinds of element                      *)

\* The type tokens of the elements of a tag, in lower case.
TypeTokens(tag) ==
    CASE tag = "Tensor" -> {TypeInput, TypeOutput, TypeInputBuffer, TypeOutputBuffer,
                            TypeData}
      [] tag = "Data" -> {TypeData, TypeLocalData}
      [] tag = "Scalar" -> {TypeInt, TypeFloat}

\* The message of the exception for a type text on an element of a tag.
InvalidTypeMessage(tag, typeStr) ==
    CASE tag = "Tensor" ->
             "Tensor node has an invalid type '" \o StreamText(typeStr) \o "'"
      [] tag = "Data" ->
             "Data node has an invalid type '" \o StreamText(typeStr) \o "'"
      [] tag = "Scalar" -> "Scalar node has an invalid type " \o StreamText(typeStr)

\* C23: processParametersNode takes, whatever the case of the letters,
\* exactly the type tokens input, output, input_buffer, output_buffer, data
\* on Tensor, data and local_data on Data, int and float on Scalar elements;
\* an element with any other token makes the call fail, with
\* InvalidDescriptor naming the kind of node and the token when the call
\* gets to that element, and neither that element nor a later one yields a
\* parameter; an element with one of its tokens never fails for its type.
C23_TypeTokens ==
    Called =>
        \A i \in 1..Len(parameters) :
            LET n == parameters[i]
            IN  (n.tag \in {"Tensor", "Data", "Scalar"} /\ n.type.present) =>
                    IF Lower(n.type.value) \in TypeTokens(n.tag)
                    THEN paramsResult.msg # InvalidTypeMessage(n.tag, n.type.value)
                    ELSE /\ paramsResult.status # "Ok"
                         /\ ~PushedFor(i)
                         /\ ThrownAt(i) =>
                                /\ paramsResult.status = "InvalidDescriptor"
                                /\ paramsResult.msg
                                       = InvalidTypeMessage(n.tag, n.type.value)

\* The call threw at a Tensor element with the type local_data, the second
\* Tensor of the block, after the Tensor element with the upper-case token
\* before it had been parsed.
C23_Witness ==
    /\ Len(parameters) = 2
    /\ parameters[1].tag = "Tensor" /\ parameters[1].type.value = <<"O","U","T","P","U","T">>
    /\ parameters[2].tag = "Tensor" /\ parameters[2].type.value = TypeLocalData
    /\ ThrownAt(2)
    /\ Len(paramsResult.value) = 1
    /\ paramsResult.status = "InvalidDescriptor"
    /\ paramsResult.msg = "Tensor node has an invalid type 'local_data'"


----------------------------------------------------------------------------
(* C24: the order of the statements decides the failure reported           *)

\* The statements that read the XML node after the binary has been loaded.
XmlStatements == {"processParametersNode", "processWorkSizesNode", "inputDataCount",
                  "parameters", "entry"}

\* The statements of the CustomClKernel constructor that read the binary.
ElfStatements == {"neo_metadata", "neo_metadata.str", "kernelId",
                  "deduceKernelParameters"}

\* The first Source of the node of kernel k names a file that cannot be
\* opened.
UnopenableSource(k) ==
    /\ kernelNode[k].sources # <<>>
    /\ ContentsAt(FirstSourcePath(k)) = {}

\* The Parameters block of the node of kernel k has a Data element with
\* neither source nor dim.
InvalidParameter(k) ==
    \E i \in 1..Len(kernelNode[k].parameters) :
        /\ kernelNode[k].parameters[i].tag = "Data"
        /\ AttrEmpty(kernelNode[k].parameters[i].source)
        /\ AttrEmpty(kernelNode[k].parameters[i].dim)

\* The dim attribute of WorkSizes of the node of kernel k is there and
\* parseDimSource rejects it.
InvalidWorkSizesDim(k) ==
    /\ kernelNode[k].workSizes.dim.present
    /\ parseDimSource(kernelNode[k].workSizes.dim.value).status # "Ok"

\* C24: the statements of a constructor run in one order, which decides the
\* failure reported: the binary is loaded before Parameters and WorkSizes
\* are parsed, and the CustomClKernel constructor has parsed Parameters,
\* WorkSizes and entry before it reads the binary.  A node with a Source
\* file that cannot be opened and an invalid parameter fails with the file
\* error, and one with an invalid WorkSizes dim and a binary without
\* .neo_metadata fails with the descriptor error.
C24_StatementOrderDecidesFailure ==
    \A k \in Kernels :
        /\ (pc[k] \in XmlStatements \cup ElfStatements \cup {"constructed"}) =>
               /\ kernelNode[k].sources # <<>>
               /\ ContentsAt(FirstSourcePath(k)) # {}
        /\ (pc[k] \in ElfStatements \cup {"constructed"}) =>
               /\ ~InvalidParameter(k)
               /\ ~InvalidWorkSizesDim(k)
               /\ kernelNode[k].variant = "CL" => kernelNode[k].entry.present
        /\ (Ended(k) /\ UnopenableSource(k)) =>
               /\ result[k].status = "FileNotFound"
               /\ pc[k] = "loadKernelBinary"
        /\ (Ended(k) /\ kernelNode[k].variant = "CL" /\ ~UnopenableSource(k)
                /\ kernelNode[k].sources # <<>>
                /\ ~InvalidParameter(k) /\ InvalidWorkSizesDim(k)
                /\ pc[k] # "processParametersNode") =>
               /\ result[k].status = "InvalidDescriptor"
               /\ pc[k] = "processWorkSizesNode"

\* A CustomClKernel node with a dim that names no source and a binary
\* without .neo_metadata failed at processWorkSizesNode with the descriptor
\* error.
C24_Witness ==
    /\ kernelNode[1].variant = "CL"
    /\ kernelNode[1].sources # <<>>
    /\ ContentsAt(FirstSourcePath(1)) # {}
    /\ InvalidWorkSizesDim(1)
    /\ ~HasSectionNamed(LoadedBinary(1), NeoMetadataName)
    /\ pc[1] = "processWorkSizesNode"
    /\ result[1].status = "InvalidDescriptor"
    /\ ctor[1].this = NoObject


----------------------------------------------------------------------------
(* C25: the argument indices deduceKernelParameters asks for               *)

\* deduceKernelParameters has run in the constructor of kernel k.
DeduceRan(k) ==
    /\ kernelNode[k].variant = "CL"
    /\ \/ pc[k] = "constructed"
       \/ pc[k] = "deduceKernelParameters" /\ Ended(k)

\* The kernel of the parser that deduceKernelParameters of kernel k was
\* given: the one with the entry name.
DeducedKernel(k) ==
    get_kernel(ctor[k].parser, get_kernel_id(ctor[k].parser, ctor[k].kernelEntryName))

\* C25: deduceKernelParameters asks the parser only for arguments i with
\* 0 <= i < arg_count - 1, for every arg_count >= 0: it fails on an
\* argument only when one of these cannot be decoded, and for a kernel of
\* arg_count 0 the subtraction does not wrap, no argument is asked for and
\* the names are the empty list.
C25_IndicesBelowArgCount ==
    \A k \in Kernels :
        DeduceRan(k) =>
            /\ result[k].status = "MetadataParser" =>
                   \E i \in 0..(DeducedKernel(k).arg_count - 2) :
                       get_argument(DeducedKernel(k), i) = nullptr
            /\ DeducedKernel(k).arg_count = 0 =>
                   /\ result[k].status = "Ok"
                   /\ result[k].value._parameters = <<>>


----------------------------------------------------------------------------
(* The connection pool of XLinkDevice.c                                    *)

(* A Connection is modelled by its link id and its status; a pointer to a  *)
(* Connection by the index of its slot in availableConnections, NULL by    *)
(* -1.  Connection_Init, Connection_Connect, Connection_Clean,             *)
(* Connection_Reset and getLinkById are defined in XLinkConnection, which  *)
(* is not among the sources: they are modelled by what their callers here  *)
(* rely on.                                                                *)

NULL == -1

\* What XLinkConnect and XLinkResetRemote are given, and what the calls
\* they make into the platform give.
XLinkInputs ==
    [handler : BOOLEAN, pathValid : BOOLEAN, initOk : BOOLEAN, connectOk : BOOLEAN, resetOk : BOOLEAN,
     crash : BOOLEAN]

\* The return of an XLink call: the function, its return code, and for
\* XLinkConnect and XLinkResetRemote the connection it worked on and
\* whether it passed it to Connection_Init; freed is the index at which
\* releaseConnection stored into freeConnectionsIds, NULL when the call did
\* not get that far.
XLinkReturned(fn, rc, connection, init) ==
    [status |-> "Returned", fn |-> fn, rc |-> rc, connection |-> connection,
     init |-> init, freed |-> NULL]

\* The process was ended by an access through NULL or by a store outside
\* freeConnectionsIds that hit no mapped storage.
XLinkCrashed(fn, connection, init) ==
    [status |-> "Crash", fn |-> fn, rc |-> "none", connection |-> connection,
     init |-> init, freed |-> NULL]

\* getLinkById(id): the first connection with that id, NULL without one.
getLinkById(connections, id) ==
    IF \E i \in 0..(MAX_LINKS - 1) : connections[i].id = id
    THEN CHOOSE i \in 0..(MAX_LINKS - 1) :
             /\ connections[i].id = id
             /\ \A j \in 0..(i - 1) : connections[j].id # id
    ELSE NULL

\* Connection_Init(connection, id) that succeeds
Connection_Init(connections, connection, id) ==
    [connections EXCEPT ![connection] = [id |-> id, status |-> "CONNECTION_DOWN"]]

\* Connection_Connect(connection, handler) that succeeds
Connection_Connect(connections, connection) ==
    [connections EXCEPT ![connection].status = "CONNECTION_UP"]

\* Connection_Clean(connection), also the state Connection_Reset leaves:
\* the link is down, the id is kept (releaseConnection resets it itself).
Connection_Clean(connections, connection) ==
    [connections EXCEPT ![connection].status = "CONNECTION_DOWN"]

RECURSIVE NextUniqueIdFrom(_, _, _)

\* The do-while loop of getNextAvailableLinkUniqueId with nextUniqueLinkId
\* = next: the id returned and nextUniqueLinkId afterwards.
NextUniqueIdFrom(connections, start, next) ==
    IF ~\E i \in 0..(MAX_LINKS - 1) :
            connections[i].id # INVALID_LINK_ID /\ connections[i].id = next
    THEN [id |-> next, nextUniqueLinkId |-> next]
    ELSE IF (IF next + 1 = INVALID_LINK_ID THEN 0 ELSE next + 1) = start
    THEN [id |-> INVALID_LINK_ID, nextUniqueLinkId |-> start]
    ELSE NextUniqueIdFrom(connections, start,
                          IF next + 1 = INVALID_LINK_ID THEN 0 ELSE next + 1)

\* static linkId_t getNextAvailableLinkUniqueId()
getNextAvailableLinkUniqueId(connections, next) ==
    NextUniqueIdFrom(connections, next, next)

\* static Connection* getNextAvailableConnection(): the first slot flagged
\* free, which it flags busy; NULL when there is none.
getNextAvailableConnection(flags) ==
    IF \E i \in 0..(MAX_LINKS - 1) : flags[i] = FREE_CONNECTION_FLAG
    THEN LET slot == CHOOSE i \in 0..(MAX_LINKS - 1) :
                         /\ flags[i] = FREE_CONNECTION_FLAG
                         /\ \A j \in 0..(i - 1) : flags[j] # FREE_CONNECTION_FLAG
         IN  [connection |-> slot,
              freeConnectionsIds |-> [flags EXCEPT ![slot] = BUSY_CONNECTION_FLAG]]
    ELSE [connection |-> NULL, freeConnectionsIds |-> flags]

\* static XLinkError_t releaseConnection(connection), connection not NULL:
\* the globals it can leave, with the index it stored at and whether the
\* store ended the process.  The int FREE_CONNECTION_FLAG is stored at
\* freeConnectionsIds[id], id being the link id of the connection and not
\* the index of its slot; then the connection is cleaned and its id
\* invalidated.  A link id from MAX_PACKET_PER_STREAM on is no index of the
\* array: the store goes to the address behind it, which the declarations
\* do not fix.  Where no storage is mapped there the process ends at the
\* store, before the cleaning, with no global changed.  Otherwise the store
\* zeroes g_IsInitialized, nextUniqueLinkId, the id or the status (or both)
\* of any connection, or storage that is none of these; the store into the
\* connection being released comes before its cleaning.
releaseConnection(initialized, connections, flags, next, connection) ==
    LET id == connections[connection].id
        Cleaned(stored) ==
            [Connection_Clean(stored, connection)
                 EXCEPT ![connection].id = INVALID_LINK_ID]
        inside == [g_IsInitialized |-> initialized,
                   availableConnections |-> Cleaned(connections),
                   freeConnectionsIds |-> flags,
                   nextUniqueLinkId |-> next,
                   freed |-> id,
                   crashed |-> FALSE]
    IN  IF id < MAX_PACKET_PER_STREAM
        THEN {[inside EXCEPT !.freeConnectionsIds[id] = FREE_CONNECTION_FLAG]}
        ELSE {[inside EXCEPT !.availableConnections = connections,
                             !.crashed = TRUE],
              inside,
              [inside EXCEPT !.g_IsInitialized = FREE_CONNECTION_FLAG],
              [inside EXCEPT !.nextUniqueLinkId = FREE_CONNECTION_FLAG]}
             \cup {[inside EXCEPT !.availableConnections = Cleaned(stored)] :
                      stored \in
                          UNION {{[connections EXCEPT ![j].id = ZeroConnection.id],
                                  [connections EXCEPT ![j].status = ZeroConnection.status],
                                  [connections EXCEPT ![j] = ZeroConnection]} :
                                 j \in 0..(MAX_LINKS - 1)}}

\* XLinkError_t XLinkResetRemote(id) with the globals as given: the globals
\* it can leave and what it returns.  resetOk says whether Connection_Reset
\* succeeds; it is called for a connection that is up and leaves it down
\* before releaseConnection runs.
XLinkResetRemoteCall(initialized, connections, flags, next, id, resetOk) ==
    LET connection == getLinkById(connections, id)
        Unchanged(rc, found) ==
            [g_IsInitialized |-> initialized,
             availableConnections |-> connections,
             freeConnectionsIds |-> flags,
             nextUniqueLinkId |-> next,
             xlinkReturn |-> XLinkReturned("XLinkResetRemote", rc, found, FALSE)]
    IN  IF connection = NULL
        THEN {Unchanged("X_LINK_ERROR", NULL)}
        ELSE IF connections[connection].status = "CONNECTION_UP" /\ ~resetOk
        THEN {Unchanged("X_LINK_ERROR", connection)}
        ELSE {[g_IsInitialized |-> released.g_IsInitialized,
               availableConnections |-> released.availableConnections,
               freeConnectionsIds |-> released.freeConnectionsIds,
               nextUniqueLinkId |-> released.nextUniqueLinkId,
               xlinkReturn |->
                   [(IF released.crashed
                     THEN XLinkCrashed("XLinkResetRemote", connection, FALSE)
                     ELSE XLinkReturned("XLinkResetRemote", "X_LINK_SUCCESS",
                                        connection, FALSE))
                        EXCEPT !.freed = released.freed]] :
              released \in
                  releaseConnection(initialized,
                                    IF connections[connection].status = "CONNECTION_UP"
                                    THEN Connection_Clean(connections, connection)
                                    ELSE connections,
                                    flags, next, connection)}

\* The XLink calls are made while the process is alive.
XLinkAlive == xlinkReturn.status # "Crash"

otherVars == <<textVars, kernelNode, files, pc, ctor, result, visits, accepted, lane>>

\* XLinkError_t XLinkInitialize(globalHandler); globalHandler says whether
\* the pointer is not NULL: ASSERT_XLINK returns X_LINK_ERROR on NULL.
XLinkInitialize ==
    /\ XLinkAlive
    /\ \E globalHandler \in BOOLEAN :
       IF ~globalHandler
       THEN /\ xlinkReturn' =
                   XLinkReturned("XLinkInitialize", "X_LINK_ERROR", NULL, FALSE)
            /\ UNCHANGED <<g_IsInitialized, availableConnections, freeConnectionsIds,
                           nextUniqueLinkId>>
       ELSE IF g_IsInitialized # 0
       THEN /\ xlinkReturn' =
                   XLinkReturned("XLinkInitialize", "X_LINK_SUCCESS", NULL, FALSE)
            /\ UNCHANGED <<g_IsInitialized, availableConnections, freeConnectionsIds,
                           nextUniqueLinkId>>
       ELSE /\ xlinkReturn' =
                   XLinkReturned("XLinkInitialize", "X_LINK_SUCCESS", NULL, FALSE)
            /\ availableConnections' =
                   [i \in 0..(MAX_LINKS - 1) |->
                       [ZeroConnection EXCEPT !.id = INVALID_LINK_ID]]
            /\ freeConnectionsIds' =
                   [i \in 0..(MAX_PACKET_PER_STREAM - 1) |->
                       IF i < MAX_LINKS THEN FREE_CONNECTION_FLAG
                       ELSE freeConnectionsIds[i]]
            /\ g_IsInitialized' = 1
            /\ UNCHANGED nextUniqueLinkId
    /\ UNCHANGED otherVars

\* XLinkError_t XLinkConnect(handler)
XLinkConnect ==
    /\ XLinkAlive
    /\ \E in \in XLinkInputs :
        LET got == getNextAvailableConnection(freeConnectionsIds)
            unique == getNextAvailableLinkUniqueId(availableConnections, nextUniqueLinkId)
            initialised == Connection_Init(availableConnections, got.connection,
                                           unique.id)
        IN  IF ~in.handler \/ ~in.pathValid
            THEN /\ xlinkReturn' = XLinkReturned("XLinkConnect", "X_LINK_ERROR", NULL, FALSE)
                 /\ UNCHANGED <<availableConnections, freeConnectionsIds,
                                nextUniqueLinkId>>
            ELSE /\ freeConnectionsIds' = got.freeConnectionsIds
                 /\ nextUniqueLinkId' = unique.nextUniqueLinkId
                 /\ IF got.connection = NULL
                    THEN /\ xlinkReturn' =
                                IF in.crash
                                THEN XLinkCrashed("XLinkConnect", NULL, TRUE)
                                ELSE XLinkReturned("XLinkConnect", "X_LINK_ERROR", NULL, TRUE)
                         /\ UNCHANGED availableConnections
                    ELSE IF ~in.initOk
                    THEN /\ xlinkReturn' = XLinkReturned("XLinkConnect", "X_LINK_ERROR",
                                                         got.connection, TRUE)
                         /\ UNCHANGED availableConnections
                    ELSE IF ~in.connectOk
                    THEN /\ xlinkReturn' = XLinkReturned("XLinkConnect", "X_LINK_ERROR",
                                                         got.connection, TRUE)
                         /\ availableConnections' =
                                Connection_Clean(initialised, got.connection)
                    ELSE /\ xlinkReturn' = XLinkReturned("XLinkConnect", "X_LINK_SUCCESS",
                                                         got.connection, TRUE)
                         /\ availableConnections' =
                                Connection_Connect(initialised, got.connection)
    /\ UNCHANGED <<g_IsInitialized, otherVars>>

\* XLinkError_t XLinkResetRemote(id), id any value of linkId_t
XLinkResetRemote ==
    /\ XLinkAlive
    /\ \E id \in 0..INVALID_LINK_ID, in \in XLinkInputs :
        \E out \in XLinkResetRemoteCall(g_IsInitialized, availableConnections,
                                        freeConnectionsIds, nextUniqueLinkId,
                                        id, in.resetOk) :
            /\ xlinkReturn' = out.xlinkReturn
            /\ g_IsInitialized' = out.g_IsInitialized
            /\ availableConnections' = out.availableConnections
            /\ freeConnectionsIds' = out.freeConnectionsIds
            /\ nextUniqueLinkId' = out.nextUniqueLinkId
    /\ UNCHANGED otherVars

\* XLinkError_t XLinkResetAll(), built without NO_BOOT: XLinkResetRemote
\* with the link id of every slot in turn, whatever the calls return; a
\* call that ends the process ends the loop.
XLinkResetAll ==
    /\ XLinkAlive
    /\ LET RECURSIVE ResetFrom(_, _)
           ResetFrom(i, globals) ==
               IF globals.xlinkReturn.status = "Crash"
               THEN {[globals EXCEPT !.xlinkReturn.fn = "XLinkResetAll"]}
               ELSE IF i = MAX_LINKS
               THEN {[globals EXCEPT !.xlinkReturn =
                          XLinkReturned("XLinkResetAll", "X_LINK_SUCCESS", NULL, FALSE)]}
               ELSE UNION {ResetFrom(i + 1, out) :
                           out \in UNION {XLinkResetRemoteCall(
                                              globals.g_IsInitialized,
                                              globals.availableConnections,
                                              globals.freeConnectionsIds,
                                              globals.nextUniqueLinkId,
                                              globals.availableConnections[i].id,
                                              resetOk) : resetOk \in BOOLEAN}}
       IN  \E out \in ResetFrom(0, [g_IsInitialized |-> g_IsInitialized,
                                    availableConnections |-> availableConnections,
                                    freeConnectionsIds |-> freeConnectionsIds,
                                    nextUniqueLinkId |-> nextUniqueLinkId,
                                    xlinkReturn |-> xlinkReturn]) :
               /\ xlinkReturn' = out.xlinkReturn
               /\ g_IsInitialized' = out.g_IsInitialized
               /\ availableConnections' = out.availableConnections
               /\ freeConnectionsIds' = out.freeConnectionsIds
               /\ nextUniqueLinkId' = out.nextUniqueLinkId
    /\ UNCHANGED otherVars

InitXLink ==
    /\ NoTextCall
    /\ NoConstruction
    /\ NoDevice

NextXLink ==
    \/ XLinkInitialize
    \/ XLinkConnect
    \/ XLinkResetRemote
    \/ XLinkResetAll

SpecXLink == InitXLink /\ [][NextXLink]_vars


\* C26: once XLinkInitialize has run, after any XLinkConnect,
\* XLinkResetRemote and XLinkResetAll calls, slot i is flagged busy in freeConnectionsIds
\* exactly when availableConnections[i] has a valid link id; a failed
\* connect has given the slot it took back to the free pool; a reset has
\* freed the flag of the very slot it released, which is an index of
\* freeConnectionsIds; no call ends the process by working through NULL
\* or storing outside an array, and XLinkConnect does not initialise a NULL
\* connection when every slot is busy.
C26_PoolMatchesConnections ==
    /\ g_IsInitialized = 1 =>
        /\ \A i \in 0..(MAX_LINKS - 1) :
               (freeConnectionsIds[i] = BUSY_CONNECTION_FLAG)
                   <=> (availableConnections[i].id # INVALID_LINK_ID)
        /\ xlinkReturn.status # "Crash"
        /\ (/\ xlinkReturn.status = "Returned"
            /\ xlinkReturn.fn = "XLinkConnect"
            /\ xlinkReturn.rc # "X_LINK_SUCCESS") =>
               IF xlinkReturn.connection = NULL
               THEN ~xlinkReturn.init
               ELSE /\ freeConnectionsIds[xlinkReturn.connection] = FREE_CONNECTION_FLAG
                    /\ availableConnections[xlinkReturn.connection].id = INVALID_LINK_ID
    /\ (/\ xlinkReturn.status = "Returned"
        /\ xlinkReturn.fn = "XLinkResetRemote"
        /\ xlinkReturn.rc = "X_LINK_SUCCESS") =>
           /\ xlinkReturn.freed \in 0..(MAX_PACKET_PER_STREAM - 1)
           /\ xlinkReturn.freed = xlinkReturn.connection

====
